---- MODULE Spec2Model ----
(***************************************************************************)
(* Model of the demographic time-series processing chain of                *)
(* data-pipeline/src/processors (process_data in scripts/run_pipeline.py): *)
(*   interpolate_population -> create_births_monthly_index ->              *)
(*   compute_fertility_rates -> compute_seasonality ->                     *)
(*   compute_conception_rates,                                             *)
(* followed by the export steps of main: export_csv, the inclusion filters *)
(* and the countries index of export_json with its per-country workers,    *)
(* and export_charts with its per-country workers.                         *)
(*                                                                         *)
(* Tables (polars DataFrames) are sequences of records, one record per     *)
(* row, one field per column.  Float64 cells are exact rationals extended  *)
(* with the IEEE specials the code can produce: a cell is a triple         *)
(* <<kind, n, d>> with kind "null" (polars null), "num" (n/d in lowest     *)
(* terms, d > 0), "nan" or "inf" (n is the sign).  Rounding error of       *)
(* Float64 arithmetic is not modelled.                                     *)
(***************************************************************************)
EXTENDS Integers, Sequences, FiniteSets, TLC

(***************************************************************************)
(* Bounds of the model.                                                    *)
(***************************************************************************)
FirstYear == 2019     \* first calendar year of the window of raw data
NumYears == 3         \* number of calendar years in the window
MaxBirths == 2        \* raw monthly Births of country 1 range over 0..MaxBirths
MaxPop == 2           \* raw population of country 1: 0..MaxPop units

LastYear == FirstYear + NumYears - 1

(***************************************************************************)
(* Program constants.                                                      *)
(***************************************************************************)
RATE_SCALE == 100000  \* the 1e5 of "per 100,000 women"
GESTATION_MONTHS == 10
WINDOW_SIZE == 12
MONTH_NORM_DAYS == 30
YEAR_NORM_DAYS == 360
MIN_YEARS_DATA == 25
MIN_MONTHLY_BIRTHS == 200

\* a sequence given by a rule, evaluated once into an explicit tuple
Eager(s) == s \o <<>>

(***************************************************************************)
(* Float64 / nullable cells.                                               *)
(***************************************************************************)
Null == <<"null", 0, 1>>
NaN == <<"nan", 0, 1>>
Inf(s) == <<"inf", s, 1>>

Abs(n) == IF n < 0 THEN -n ELSE n
Sign(n) == IF n < 0 THEN -1 ELSE 1

RECURSIVE GCD(_, _)
GCD(a, b) == IF b = 0 THEN a ELSE GCD(b, a % b)

Num(n, d) ==
    LET g == GCD(Abs(n), d)
    IN  <<"num", n \div g, d \div g>>

V(n) == Num(n, 1)

IsNull(v) == v[1] = "null"
IsNum(v) == v[1] = "num"
IsNaN(v) == v[1] = "nan"
IsInf(v) == v[1] = "inf"

\* (n1/d1) * (n2/d2) of fractions in lowest terms, reduced before multiplying
MulNum(n1, d1, n2, d2) ==
    LET g1 == GCD(Abs(n1), d2)
        g2 == GCD(Abs(n2), d1)
    IN  <<"num", (n1 \div g1) * (n2 \div g2), (d1 \div g2) * (d2 \div g1)>>

\* polars / IEEE-754 true division: null propagates, x/0 is inf or NaN
Div(a, b) ==
    IF IsNull(a) \/ IsNull(b) THEN Null
    ELSE IF IsNaN(a) \/ IsNaN(b) THEN NaN
    ELSE IF IsInf(a) THEN (IF IsInf(b) THEN NaN ELSE Inf(a[2] * Sign(b[2])))
    ELSE IF IsInf(b) THEN V(0)
    ELSE IF b[2] = 0 THEN (IF a[2] = 0 THEN NaN ELSE Inf(Sign(a[2])))
    ELSE MulNum(a[2] * Sign(b[2]), a[3], b[3], Abs(b[2]))

Mul(a, b) ==
    IF IsNull(a) \/ IsNull(b) THEN Null
    ELSE IF IsNaN(a) \/ IsNaN(b) THEN NaN
    ELSE IF IsInf(a) \/ IsInf(b)
         THEN (IF a[2] = 0 \/ b[2] = 0 THEN NaN ELSE Inf(Sign(a[2]) * Sign(b[2])))
    ELSE MulNum(a[2], a[3], b[2], b[3])

Add(a, b) ==
    IF IsNull(a) \/ IsNull(b) THEN Null
    ELSE IF IsNaN(a) \/ IsNaN(b) THEN NaN
    ELSE IF IsInf(a) THEN (IF IsInf(b) /\ b[2] # a[2] THEN NaN ELSE a)
    ELSE IF IsInf(b) THEN b
    ELSE LET g == GCD(a[3], b[3])
         IN  Num(a[2] * (b[3] \div g) + b[2] * (a[3] \div g), (a[3] \div g) * b[3])

Sub(a, b) == Add(a, Mul(V(-1), b))

\* a <= b on finite numbers
LeqNum(a, b) == a[2] * b[3] <= b[2] * a[3]

\* Expr.sum(): nulls are skipped, the sum of no value is 0
RECURSIVE SumFrom(_, _)
SumFrom(vals, i) ==
    IF i > Len(vals) THEN V(0)
    ELSE IF IsNull(vals[i]) THEN SumFrom(vals, i + 1)
    ELSE Add(vals[i], SumFrom(vals, i + 1))

Sum(vals) == SumFrom(vals, 1)

NonNullCount(vals) == Cardinality({i \in 1..Len(vals) : ~IsNull(vals[i])})

\* Expr.mean(): mean of the non-null values, null when there is none
Mean(vals) ==
    IF NonNullCount(vals) = 0 THEN Null
    ELSE Div(Sum(vals), V(NonNullCount(vals)))

(***************************************************************************)
(* Calendar: pl.date(Year, Month, 1) is the month ordinal Year*12+Month-1. *)
(***************************************************************************)
MkDate(y, m) == y * 12 + m - 1
DateYear(d) == d \div 12
DateMonth(d) == (d % 12) + 1

IsLeap(y) == (y % 4 = 0 /\ y % 100 # 0) \/ y % 400 = 0

DaysInMonth(y, m) ==
    IF m = 2 THEN (IF IsLeap(y) THEN 29 ELSE 28)
    ELSE IF m \in {4, 6, 9, 11} THEN 30
    ELSE 31

\* pl.date_range(lo, hi, interval='1mo') on first-of-month dates
DateRange(lo, hi) == Eager([i \in 1..(hi - lo + 1) |-> lo + i - 1])

(***************************************************************************)
(* Generic table helpers.                                                  *)
(***************************************************************************)
NoSource == "null"    \* a null cell of the Utf8 column Source

Min(S) == CHOOSE x \in S : \A y \in S : x <= y
Max(S) == CHOOSE x \in S : \A y \in S : x >= y

RECURSIVE FlattenRange(_, _, _)
FlattenRange(ss, lo, hi) ==
    IF lo > hi THEN <<>>
    ELSE IF lo = hi THEN ss[lo]
    ELSE LET mid == (lo + hi) \div 2
         IN  FlattenRange(ss, lo, mid) \o FlattenRange(ss, mid + 1, hi)

Flatten(ss) == FlattenRange(ss, 1, Len(ss))

\* the elements of a set of integers in ascending order
Ascending(S) ==
    Eager([k \in 1..Cardinality(S) |->
        CHOOSE x \in S : Cardinality({y \in S : y <= x}) = k])

SameKey(a, b) ==
    a.Country = b.Country /\ a.Year = b.Year /\ a.Month = b.Month

KeyLE(a, b) ==
    \/ a.Country < b.Country
    \/ a.Country = b.Country /\ a.Year < b.Year
    \/ a.Country = b.Country /\ a.Year = b.Year /\ a.Month <= b.Month

\* DataFrame.sort(['Country', 'Year', 'Month']) (stable)
SortRows(t) ==
    LET Before(j, i) ==
            \/ ~KeyLE(t[i], t[j])
            \/ KeyLE(t[j], t[i]) /\ j <= i
        place == Eager([i \in 1..Len(t) |->
                     Cardinality({j \in 1..Len(t) : Before(j, i)})])
    IN  Eager([k \in 1..Len(t) |-> t[CHOOSE i \in 1..Len(t) : place[i] = k]])

CountriesOf(t) == {t[i].Country : i \in 1..Len(t)}
RowsOf(t, c) == SelectSeq(t, LAMBDA r : r.Country = c)

\* position of row i of t inside its Country partition
PartPos(t, i) == Cardinality({j \in 1..i : t[j].Country = t[i].Country})

\* rank of the partition of country c among the partitions of t
PartRank(t, c) == Cardinality({x \in CountriesOf(t) : x <= c})

\* group_by('Country').agg(F): one result per country, in ascending order
\* of the country
PerCountry(t, F(_)) ==
    LET cs == Ascending(CountriesOf(t))
    IN  Eager([k \in 1..Len(cs) |-> F(RowsOf(t, cs[k]))])

\* expr.over('Country'): F maps the rows of one partition to one cell per
\* row; every row of t receives the cell at its position in its partition
OverCountry(t, F(_)) ==
    LET cols == PerCountry(t, F)
    IN  Eager([i \in 1..Len(t) |-> cols[PartRank(t, t[i].Country)][PartPos(t, i)]])

\* the cells of one column of a table, as a sequence
Column(t, Cell(_)) == Eager([i \in 1..Len(t) |-> Cell(t[i])])

\* fill_null(strategy='forward') on one partition
FillForward(vals, nul) ==
    Eager([i \in 1..Len(vals) |->
        LET js == {j \in 1..i : vals[j] # nul}
        IN  IF js = {} THEN nul ELSE vals[Max(js)]])

\* fill_null(strategy='backward') on one partition
FillBackward(vals, nul) ==
    Eager([i \in 1..Len(vals) |->
        LET js == {j \in i..Len(vals) : vals[j] # nul}
        IN  IF js = {} THEN nul ELSE vals[Min(js)]])

\* Expr.interpolate(method='linear') on one partition: a null between two
\* non-null neighbours gets the value on the straight line between them
\* (rows are equally spaced); leading and trailing nulls stay null
Interpolate(vals) ==
    Eager([i \in 1..Len(vals) |->
        IF ~IsNull(vals[i]) THEN vals[i]
        ELSE LET before == {j \in 1..i : ~IsNull(vals[j])}
                 after == {j \in i..Len(vals) : ~IsNull(vals[j])}
             IN  IF before = {} \/ after = {} THEN Null
                 ELSE LET lo == Max(before)
                          hi == Min(after)
                      IN  Add(vals[lo],
                              Mul(Sub(vals[hi], vals[lo]), Num(i - lo, hi - lo)))])

(***************************************************************************)
(* Raw observations handed over by the loaders: unique (Country, Year,     *)
(* Month) keys (the loaders group by the key and anti-join the sources).   *)
(***************************************************************************)
BirthPatterns ==
    [kind : {"const"}, a : 1..MaxBirths]
    \cup [kind : {"cycle", "perday"}, a : {1}]
    \cup [kind : {"zero"}, a : {MaxBirths}]

\* Births of country 1 in month d under a pattern: the same count every
\* month, a count that changes from month to month (0 in some months), the
\* same count every day, or no birth at all
PatternBirths(p, d) ==
    IF p.kind = "const" THEN p.a
    ELSE IF p.kind = "cycle" THEN (p.a + d) % (MaxBirths + 1)
    ELSE IF p.kind = "perday" THEN p.a * DaysInMonth(DateYear(d), DateMonth(d))
    ELSE IF p.kind = "floor" THEN p.a
    ELSE 0

\* the raw Births cell of country 1 in month d: the count of the pattern,
\* or no value in any month
PatternCell(p, d) ==
    IF p.kind = "missing" THEN Null ELSE V(PatternBirths(p, d))

StartDates == {MkDate(FirstYear, 1), MkDate(FirstYear, 11), MkDate(FirstYear + 1, 3)}

EndDates(start) ==
    {d \in {start, start + 9, MkDate(LastYear - 1, 12), MkDate(LastYear, 2)} :
        d >= start}

\* a month without raw row ("gap") or with a null Births cell ("null")
Holes ==
    {[kind |-> "none", date |-> 0],
     [kind |-> "gap", date |-> MkDate(FirstYear + 1, 6)],
     [kind |-> "null", date |-> MkDate(FirstYear + 1, 2)]}

BirthChoices ==
    {c \in [start : StartDates,
            end : UNION {EndDates(st) : st \in StartDates},
            pattern : BirthPatterns, hole : Holes, rev : BOOLEAN] :
        c.end \in EndDates(c.start)}

\* the choice combined with every population choice
PlainBirthChoice ==
    [start |-> MkDate(FirstYear, 11), end |-> MkDate(LastYear, 2),
     pattern |-> [kind |-> "cycle", a |-> 1],
     hole |-> [kind |-> "none", date |-> 0], rev |-> FALSE]

\* patterns around the default births floor, and a series without any value
FilterPatterns ==
    BirthPatterns
    \cup [kind : {"floor"}, a : {MIN_MONTHLY_BIRTHS - 1, MIN_MONTHLY_BIRTHS}]
    \cup [kind : {"missing"}, a : {0}]

\* the choices combined with every choice of the thresholds: a single month
\* or the first two years
FilterBirthChoices ==
    [start : {MkDate(FirstYear, 1)},
     end : {MkDate(FirstYear, 1), MkDate(FirstYear + 1, 12)},
     pattern : FilterPatterns, hole : Holes, rev : {FALSE}]

\* the source of the rows of country 1: one database up to the month of
\* the gap, another one after it
Source1(d) == IF d <= MkDate(FirstYear + 1, 6) THEN "HMD" ELSE "UN"

\* rows of country 1: months start..end without the gap month
RawBirths1(c) ==
    LET ds == SelectSeq(DateRange(c.start, c.end),
                        LAMBDA d : ~(c.hole.kind = "gap" /\ d = c.hole.date))
    IN  Eager([i \in 1..Len(ds) |->
            [Country |-> 1, Year |-> DateYear(ds[i]), Month |-> DateMonth(ds[i]),
             Births |-> IF c.hole.kind = "null" /\ ds[i] = c.hole.date
                        THEN Null ELSE PatternCell(c.pattern, ds[i]),
             Source |-> Source1(ds[i])]])

\* rows of country 2: 13 months from February of the second year, with
\* Births values country 1 never has
RawBirths2 ==
    LET ds == DateRange(MkDate(FirstYear + 1, 2), MkDate(FirstYear + 1, 2) + 12)
    IN  Eager([i \in 1..Len(ds) |->
            [Country |-> 2, Year |-> DateYear(ds[i]), Month |-> DateMonth(ds[i]),
             Births |-> V(MaxBirths + 1 + (ds[i] % 2)),
             Source |-> "UN"]])

Reverse(s) == Eager([i \in 1..Len(s) |-> s[Len(s) + 1 - i]])

RawBirths(c) ==
    LET t == RawBirths1(c) \o RawBirths2
    IN  IF c.rev THEN Reverse(t) ELSE t

\* populations are counted in units of 100000 women
PopRow(c, d, v, src) ==
    [Country |-> c, Year |-> DateYear(d), Month |-> DateMonth(d),
     childbearing_population |-> V(v * RATE_SCALE), Source |-> src]

\* shapes of the sparse population series of country 1: the distances in
\* months from its first observation to the later ones
PopShapes == {<<>>, <<2>>, <<3>>, <<3, 6>>}

PopFirstDates == {MkDate(FirstYear, 7), MkDate(FirstYear, 11)}

PopChoices ==
    [first : PopFirstDates, shape : PopShapes, v1 : 0..MaxPop, v2 : 0..MaxPop]

\* the choices combined with every births choice
PlainPopChoices ==
    {[first |-> MkDate(FirstYear, 11), shape |-> <<3>>, v1 |-> 1, v2 |-> MaxPop],
     [first |-> MkDate(FirstYear, 11), shape |-> <<3>>, v1 |-> MaxPop, v2 |-> 0],
     [first |-> MkDate(FirstYear, 7), shape |-> <<>>, v1 |-> 1, v2 |-> 1]}

\* observations of country 1 take the values v1, v2, v1, ... in turn
RawPopulation1(c) ==
    <<PopRow(1, c.first, c.v1, "HMD")>>
    \o Eager([i \in 1..Len(c.shape) |->
               PopRow(1, c.first + c.shape[i], IF i = 1 THEN c.v2 ELSE c.v1, "UN")])

\* observations of country 2: two observations three months apart, with
\* values country 1 never has
RawPopulation2 ==
    <<PopRow(2, MkDate(FirstYear + 1, 11), MaxPop + 1, "UN"),
      PopRow(2, MkDate(FirstYear + 2, 2), MaxPop + 4, "UN")>>

RawPopulation(c) == RawPopulation1(c) \o RawPopulation2

(***************************************************************************)
(* Country names and the slugs of config/countries.py.  A name is the      *)
(* sequence of its characters; the Country key c of the tables stands for  *)
(* the name country_names[c], and the keys are numbered in the order of    *)
(* the names.                                                              *)
(***************************************************************************)
\* the characters of the names of the model: ASCII letters, the space,
\* the full stop, the precomposed e-acute and the combining acute accent
UpperLetters == {"S", "L"}
LowerLetters == {"s", "l", "t", "u", "e"}
CombiningAcute == "COMBINING ACUTE ACCENT"

\* str.lower() on one character
Lower(ch) == IF ch = "S" THEN "s" ELSE IF ch = "L" THEN "l" ELSE ch

\* unicodedata.normalize('NFC', s) (line 76): a base letter followed by a
\* combining accent becomes the precomposed letter
RECURSIVE NFC(_)
NFC(s) ==
    IF Len(s) < 2 THEN s
    ELSE IF s[1] = "e" /\ s[2] = CombiningAcute
         THEN <<"E WITH ACUTE">> \o NFC(SubSeq(s, 3, Len(s)))
         ELSE <<s[1]>> \o NFC(Tail(s))

\* normalize_country_name (lines 76-79): characters other than ASCII
\* letters and whitespace are removed, spaces become hyphens, letters
\* lower case
normalize_country_name(country_name) ==
    LET kept == SelectSeq(NFC(country_name),
                    LAMBDA ch : ch \in UpperLetters \cup LowerLetters \cup {" "})
    IN  Eager([i \in 1..Len(kept) |->
            IF kept[i] = " " THEN "-" ELSE Lower(kept[i])])

get_country_slug(country_name) == normalize_country_name(country_name)

\* names of country 1 and of country 2; every name of country 1 sorts
\* before every name of country 2
Names1 == {<<"S", "t", " ", "L">>, <<"S", "t">>}
Names2 == {<<"S", "t", ".", " ", "L">>, <<"S", "t", "e", CombiningAcute>>, <<"S", "u">>}
PlainNames == <<<<"S", "t", " ", "L">>, <<"S", "u">>>>

(***************************************************************************)
(* The output files.  A path is the sequence of its components, each a     *)
(* sequence of strings; the file system maps the paths of the files that   *)
(* exist to their content <<kind, country>>.  The directories are those of *)
(* config/settings.py with no --output-dir given.                          *)
(***************************************************************************)
\* the entry name of directory dir
Child(dir, name) == dir \o <<<<name>>>>

OUTPUT_DIR == <<<<"output">>>>
JSON_OUTPUT_DIR == OUTPUT_DIR
FERTILITY_OUTPUT_DIR == Child(OUTPUT_DIR, "fertility")
SEASONALITY_OUTPUT_DIR == Child(OUTPUT_DIR, "seasonality")
CONCEPTION_OUTPUT_DIR == Child(OUTPUT_DIR, "conception")
STATES_FERTILITY_OUTPUT_DIR == Child(FERTILITY_OUTPUT_DIR, "states")
STATES_SEASONALITY_OUTPUT_DIR == Child(SEASONALITY_OUTPUT_DIR, "states")
STATES_CONCEPTION_OUTPUT_DIR == Child(CONCEPTION_OUTPUT_DIR, "states")
CHARTS_OUTPUT_DIR == Child(OUTPUT_DIR, "charts")
STATES_CHARTS_OUTPUT_DIR == Child(CHARTS_OUTPUT_DIR, "states")
FRONTEND_ASSETS_DATA_DIR == <<<<"frontend">>, <<"src">>, <<"assets">>, <<"data">>>>
FRONTEND_ASSETS_FERTILITY_DIR == Child(FRONTEND_ASSETS_DATA_DIR, "fertility")
FRONTEND_ASSETS_SEASONALITY_DIR == Child(FRONTEND_ASSETS_DATA_DIR, "seasonality")
FRONTEND_ASSETS_CONCEPTION_DIR == Child(FRONTEND_ASSETS_DATA_DIR, "conception")
FRONTEND_ASSETS_STATES_FERTILITY_DIR == Child(FRONTEND_ASSETS_FERTILITY_DIR, "states")
FRONTEND_CONTENT_CHARTS_DIR == <<<<"frontend">>, <<"src">>, <<"assets">>, <<"charts">>>>
FRONTEND_CONTENT_STATES_CHARTS_DIR == Child(FRONTEND_CONTENT_CHARTS_DIR, "states")
CSV_OUTPUT_DIR == <<<<"src">>>>

\* the file slug + extension of a directory
SlugFile(dir, slug, ext) == dir \o <<slug \o <<ext>>>>

\* path lies inside directory dir, at any depth
Inside(path, dir) ==
    Len(path) > Len(dir) /\ SubSeq(path, 1, Len(dir)) = dir

\* open(path, 'w') and a dump of content
WriteFile(fs, path, content) ==
    [p \in DOMAIN fs \cup {path} |-> IF p = path THEN content ELSE fs[p]]

WriteFiles(fs, paths, content) ==
    [p \in DOMAIN fs \cup paths |-> IF p \in paths THEN content ELSE fs[p]]

\* Path.unlink() of the paths that exist
Unlink(fs, paths) == [p \in DOMAIN fs \ paths |-> fs[p]]

(***************************************************************************)
(* State.                                                                  *)
(***************************************************************************)
VARIABLES
    args,                 \* the parsed command line of main
    country_names,        \* the name that each Country key stands for
    max_workers,          \* the size of the thread pool of the JSON export
    files,                \* the output files on disk
    validated,            \* the tables that passed validate_data
    worker,               \* JSON export: the progress of each country's task
    raw_births,           \* all_births of load_all_data
    raw_population,       \* all_population of load_all_data
    births,               \* the births table of process_data
    population,           \* the population table of process_data
    stats,                \* the stats table of process_data
    pc,                   \* the step of main that ran last
    csv_written,          \* export_csv wrote the three CSV files
    filtered_countries,   \* main's filtered_countries: <<>> is None
    countries_json,       \* the entries of the written countries.json
    excluded_by_years,    \* reported: (country, complete years)
    excluded_by_births,   \* reported: (country, minimum births)
    json_exported,        \* countries whose JSON files are written
    chart_countries,      \* the countries export_all_charts works on
    charts_exported,      \* countries whose charts are written
    data,                 \* the argument of trim_leading_trailing_nulls
    result,               \* <<its result>>, <<>> before the call
    state_population,     \* the argument of expand_population_to_monthly
    state_monthly         \* <<its result>>, <<>> before the call

outputs ==
    <<csv_written, filtered_countries, countries_json, excluded_by_years,
      excluded_by_births, json_exported, chart_countries, charts_exported>>

\* what a run does not change
\* what no step of main changes
env ==
    <<country_names, max_workers, data, result, state_population, state_monthly>>

vars ==
    <<args, env, raw_births, raw_population, births, population, stats, pc,
      files, validated, worker, outputs>>

\* an optional integer argument: <<>> is None, <<k>> is the value k
NoArg == <<>>
MinYearsArgs == {NoArg} \cup {<<k>> : k \in 0..(NumYears - 1)}
MinMonthlyBirthsArgs == {NoArg} \cup {<<k>> : k \in 0..(MaxBirths + 1)}

\* what argparse hands to main (lines 390-404)
ParsedArgs ==
    [csv : BOOLEAN, json : BOOLEAN, charts : BOOLEAN, all : BOOLEAN,
     states : BOOLEAN, states_only : BOOLEAN,
     min_years : MinYearsArgs, min_monthly_births : MinMonthlyBirthsArgs]

\* main, lines 406-416: no format flag means --all unless --states-only
\* is given, --states-only implies --states, and the thresholds default to
\* the settings
ResolveArgs(a) ==
    [csv |-> a.csv, json |-> a.json, charts |-> a.charts,
     all |-> a.all \/ (~a.csv /\ ~a.json /\ ~a.charts /\ ~a.all /\ ~a.states_only),
     states |-> a.states \/ a.states_only,
     states_only |-> a.states_only,
     min_years |-> IF a.min_years = NoArg THEN MIN_YEARS_DATA ELSE a.min_years[1],
     min_monthly_births |->
         IF a.min_monthly_births = NoArg THEN MIN_MONTHLY_BIRTHS
         ELSE a.min_monthly_births[1]]

\* the command line combined with every choice of the raw tables
PlainArgs ==
    [csv |-> FALSE, json |-> FALSE, charts |-> FALSE, all |-> FALSE,
     states |-> FALSE, states_only |-> FALSE,
     min_years |-> <<1>>, min_monthly_births |-> <<1>>]

\* the command lines combined with the plain raw tables: every combination
\* of the format flags
FlagArgs ==
    {a \in ParsedArgs :
        /\ a.min_years = a.min_monthly_births
        /\ a.min_years \in {<<0>>, <<1>>}}

\* the command lines combined with the births of FilterBirthChoices: every
\* combination of the thresholds
ThresholdArgs ==
    {a \in ParsedArgs :
        a.json /\ ~a.csv /\ ~a.charts /\ ~a.all /\ ~a.states /\ ~a.states_only}

PlainPopChoice ==
    [first |-> MkDate(FirstYear, 11), shape |-> <<3>>, v1 |-> 1, v2 |-> MaxPop]

\* the largest number of threads of the pool of export_all_countries
MaxWorkers == 2

\* a run with --json alone and thresholds that exclude no country
JsonArgs ==
    [PlainArgs EXCEPT !.json = TRUE, !.all = FALSE,
                      !.min_years = <<0>>, !.min_monthly_births = <<0>>]

\* the files of export_csv (scripts/run_pipeline.py lines 259-268)
CsvFiles ==
    {Child(CSV_OUTPUT_DIR, "births_heatmap_data.csv"),
     Child(CSV_OUTPUT_DIR, "population_heatmap_data.csv"),
     Child(CSV_OUTPUT_DIR, "stats_heatmap_data.csv")}

\* what an earlier run with --all --states of another data set left behind,
\* next to a source file of the directory the CSV files are written to
PreviousSlug == <<"o", "l", "d">>
PreviousStateSlug == <<"t", "x">>
PreviousOutputs ==
    LET paths ==
            CsvFiles
            \cup {Child(CSV_OUTPUT_DIR, "__init__.py"),
                  Child(JSON_OUTPUT_DIR, "countries.json"),
                  Child(FRONTEND_ASSETS_DATA_DIR, "countries.json")}
            \cup {SlugFile(d, PreviousSlug, ".json") :
                      d \in {FERTILITY_OUTPUT_DIR, SEASONALITY_OUTPUT_DIR,
                             CONCEPTION_OUTPUT_DIR, FRONTEND_ASSETS_FERTILITY_DIR,
                             FRONTEND_ASSETS_SEASONALITY_DIR,
                             FRONTEND_ASSETS_CONCEPTION_DIR}}
            \cup {SlugFile(d, PreviousStateSlug, ".json") :
                      d \in {STATES_FERTILITY_OUTPUT_DIR, STATES_SEASONALITY_OUTPUT_DIR,
                             STATES_CONCEPTION_OUTPUT_DIR,
                             FRONTEND_ASSETS_STATES_FERTILITY_DIR}}
            \cup {Child(d \o <<PreviousSlug>>, "births_chart.png") :
                      d \in {CHARTS_OUTPUT_DIR, FRONTEND_CONTENT_CHARTS_DIR}}
            \cup {Child(d \o <<PreviousStateSlug>>, "births_chart.png") :
                      d \in {STATES_CHARTS_OUTPUT_DIR,
                             FRONTEND_CONTENT_STATES_CHARTS_DIR}}
    IN  [p \in paths |-> <<"previous", 0>>]

Init ==
    /\ \/ \E bc \in BirthChoices : \E pq \in PopChoices :
             /\ bc = PlainBirthChoice \/ pq \in PlainPopChoices
             /\ raw_births = RawBirths(bc)
             /\ raw_population = RawPopulation(pq)
             /\ args = ResolveArgs(PlainArgs)
             /\ country_names = PlainNames
             /\ max_workers = MaxWorkers
       \/ \E a \in FlagArgs :
             \* with --states-only the country data is not loaded (line 432)
             /\ raw_births = IF a.states_only THEN <<>> ELSE RawBirths(PlainBirthChoice)
             /\ raw_population =
                   IF a.states_only THEN <<>> ELSE RawPopulation(PlainPopChoice)
             /\ args = ResolveArgs(a)
             /\ country_names = PlainNames
             /\ max_workers = MaxWorkers
       \/ \E bc \in FilterBirthChoices : \E a \in ThresholdArgs :
             /\ raw_births = RawBirths(bc)
             /\ raw_population = RawPopulation(PlainPopChoice)
             /\ args = ResolveArgs(a)
             /\ country_names = PlainNames
             /\ max_workers = MaxWorkers
       \/ \E n1 \in Names1 : \E n2 \in Names2 : \E w \in 1..MaxWorkers :
             /\ raw_births = RawBirths(PlainBirthChoice)
             /\ raw_population = RawPopulation(PlainPopChoice)
             /\ args = ResolveArgs(JsonArgs)
             /\ country_names = <<n1, n2>>
             /\ max_workers = w
    /\ files = PreviousOutputs
    /\ data = <<>>
    /\ result = <<>>
    /\ state_population = <<>>
    /\ state_monthly = <<>>
    /\ validated = {}
    /\ worker = <<>>
    /\ births = <<>>
    /\ population = <<>>
    /\ stats = <<>>
    /\ pc = IF args.states_only THEN "skipped" ELSE "loaded"
    /\ csv_written = FALSE
    /\ filtered_countries = <<>>
    /\ countries_json = <<>>
    /\ excluded_by_years = <<>>
    /\ excluded_by_births = <<>>
    /\ json_exported = {}
    /\ chart_countries = <<>>
    /\ charts_exported = {}

(***************************************************************************)
(* interpolate_population                                                  *)
(***************************************************************************)
\* YearGrid cut to the months from the first to the last observed month
YearGrid_ObservedRange(rows) ==
    LET ds == {MkDate(rows[i].Year, rows[i].Month) : i \in 1..Len(rows)}
        range == DateRange(Min(ds), Max(ds))
    IN  Eager([k \in 1..Len(range) |->
            [Country |-> rows[1].Country,
             Year |-> DateYear(range[k]),
             Month |-> DateMonth(range[k])]])

\* the grid of one country (lines 28-32): the years from its first to its
\* last observed year, each with the months 1..12 (Month exploded before
\* Year)
YearGrid(rows) ==
    LET ys == {rows[i].Year : i \in 1..Len(rows)}
        lo == Min(ys)
        n == Max(ys) - lo + 1
    IN  Eager([k \in 1..(12 * n) |->
            [Country |-> rows[1].Country,
             Year |-> lo + ((k - 1) % n),
             Month |-> ((k - 1) \div n) + 1]])

PopulationIndex(pop) == SortRows(Flatten(PerCountry(pop, YearGrid)))

\* left join of the grid with the observations on (Country, Year, Month)
JoinPopulation(index, pop) ==
    Flatten(Eager([i \in 1..Len(index) |->
        LET ms == SelectSeq(pop, LAMBDA r : SameKey(index[i], r))
            l == index[i]
        IN  IF ms = <<>>
            THEN <<[Country |-> l.Country, Year |-> l.Year, Month |-> l.Month,
                    childbearing_population |-> Null, Source |-> NoSource]>>
            ELSE Eager([k \in 1..Len(ms) |->
                    [Country |-> l.Country, Year |-> l.Year, Month |-> l.Month,
                     childbearing_population |-> ms[k].childbearing_population,
                     Source |-> ms[k].Source]])]))

PopulationCells(rows) == Column(rows, LAMBDA r : r.childbearing_population)
SourceCells(rows) == Column(rows, LAMBDA r : r.Source)

\* linear interpolation inside the observed range (line 45)
InterpolateWithin(rows) == Interpolate(PopulationCells(rows))

\* HoldEdges without the backward fill
HoldEdges_ForwardOnly(rows) == FillForward(PopulationCells(rows), Null)

\* edge hold outside the observed range (line 50)
HoldEdges(rows) == FillBackward(FillForward(PopulationCells(rows), Null), Null)

\* Source filled forward, then backward (line 46)
FillSourceBothWays(rows) ==
    FillBackward(FillForward(SourceCells(rows), NoSource), NoSource)

\* interpolate_population with the edge hold running over the whole table
\* instead of over each country
interpolate_population_HoldAcrossCountries(pop) ==
    LET joined == SortRows(JoinPopulation(PopulationIndex(pop), pop))
        popcol == OverCountry(joined, InterpolateWithin)
        srccol == OverCountry(joined, FillSourceBothWays)
        filled == SortRows(Eager([i \in 1..Len(joined) |->
                     [joined[i] EXCEPT !.childbearing_population = popcol[i],
                                       !.Source = srccol[i]]]))
        held == HoldEdges(filled)
    IN  Eager([i \in 1..Len(filled) |->
            [Country |-> filled[i].Country, Year |-> filled[i].Year,
             Month |-> filled[i].Month,
             childbearing_population |-> held[i],
             Source |-> filled[i].Source,
             Date |-> MkDate(filled[i].Year, filled[i].Month)]])

interpolate_population(pop) ==
    LET joined == SortRows(JoinPopulation(PopulationIndex(pop), pop))
        popcol == OverCountry(joined, InterpolateWithin)
        srccol == OverCountry(joined, FillSourceBothWays)
        filled == SortRows(Eager([i \in 1..Len(joined) |->
                     [joined[i] EXCEPT !.childbearing_population = popcol[i],
                                       !.Source = srccol[i]]]))
        held == OverCountry(filled, HoldEdges)
    IN  Eager([i \in 1..Len(filled) |->
            [Country |-> filled[i].Country, Year |-> filled[i].Year,
             Month |-> filled[i].Month,
             childbearing_population |-> held[i],
             Source |-> filled[i].Source,
             Date |-> MkDate(filled[i].Year, filled[i].Month)]])

InterpolatePopulation ==
    /\ pc = "loaded"
    /\ population' = interpolate_population(raw_population)
    /\ pc' = "interpolated"
    /\ UNCHANGED <<args, env, files, validated, worker, stats, outputs, raw_births, raw_population, births>>

(***************************************************************************)
(* create_births_monthly_index                                             *)
(***************************************************************************)
\* MonthGrid without the date_range: only the observed months
MonthGrid_ObservedOnly(rows) ==
    Eager([k \in 1..Len(rows) |->
        [Country |-> rows[k].Country, Year |-> rows[k].Year, Month |-> rows[k].Month,
         days_in_month |-> DaysInMonth(rows[k].Year, rows[k].Month),
         Date |-> MkDate(rows[k].Year, rows[k].Month)]])

\* the index of one country (lines 72-82): one row per month from its
\* first to its last observed month
MonthGrid(rows) ==
    LET ds == {MkDate(rows[i].Year, rows[i].Month) : i \in 1..Len(rows)}
        range == DateRange(Min(ds), Max(ds))
    IN  Eager([k \in 1..Len(range) |->
            [Country |-> rows[1].Country,
             Year |-> DateYear(range[k]),
             Month |-> DateMonth(range[k]),
             days_in_month |-> DaysInMonth(DateYear(range[k]), DateMonth(range[k])),
             Date |-> range[k]]])

BirthsIndex(b) == Flatten(PerCountry(SortRows(b), MonthGrid))

\* left join of the index with the raw births on (Country, Year, Month)
JoinBirths(index, b) ==
    Flatten(Eager([i \in 1..Len(index) |->
        LET ms == SelectSeq(b, LAMBDA r : SameKey(index[i], r))
            l == index[i]
        IN  IF ms = <<>>
            THEN <<[Country |-> l.Country, Year |-> l.Year, Month |-> l.Month,
                    days_in_month |-> l.days_in_month, Date |-> l.Date,
                    Births |-> Null, Source |-> NoSource]>>
            ELSE Eager([k \in 1..Len(ms) |->
                    [Country |-> l.Country, Year |-> l.Year, Month |-> l.Month,
                     days_in_month |-> l.days_in_month, Date |-> l.Date,
                     Births |-> ms[k].Births, Source |-> ms[k].Source]])]))

\* FillSourceForward with the fill running backward
FillSourceForward_Backward(rows) == FillBackward(SourceCells(rows), NoSource)

\* Source filled forward only (line 89)
FillSourceForward(rows) == FillForward(SourceCells(rows), NoSource)

create_births_monthly_index(b) ==
    LET joined == SortRows(JoinBirths(BirthsIndex(b), b))
        srccol == OverCountry(joined, FillSourceForward)
    IN  Eager([i \in 1..Len(joined) |-> [joined[i] EXCEPT !.Source = srccol[i]]])

CreateBirthsMonthlyIndex ==
    /\ pc = "interpolated"
    /\ births' = create_births_monthly_index(raw_births)
    /\ pc' = "indexed"
    /\ UNCHANGED <<args, env, files, validated, worker, stats, outputs, raw_births, raw_population, population>>

(***************************************************************************)
(* compute_births_extent_stats, compute_population_extent_stats and the    *)
(* stats table of process_data                                             *)
(***************************************************************************)
\* the Source values of the raw tables in the order of DataFrame.sort:
\* null first, then by the string
SourceOrder == <<NoSource, "HMD", "UN">>
SourceRank(s) == CHOOSE k \in 1..Len(SourceOrder) : SourceOrder[k] = s

\* the keys of group_by('Country', 'Source') in the order of
\* sort('Country', 'Source')
GroupKeys(t) ==
    LET keys == {<<t[i].Country, t[i].Source>> : i \in 1..Len(t)}
        LE(a, b) == \/ a[1] < b[1]
                    \/ a[1] = b[1] /\ SourceRank(a[2]) <= SourceRank(b[2])
    IN  Eager([k \in 1..Cardinality(keys) |->
            CHOOSE x \in keys : Cardinality({y \in keys : LE(y, x)}) = k])

GroupRows(t, key) ==
    SelectSeq(t, LAMBDA r : r.Country = key[1] /\ r.Source = key[2])

RECURSIVE SumInts(_)
SumInts(s) == IF s = <<>> THEN 0 ELSE Head(s) + SumInts(Tail(s))

\* BirthsGroupStats with periods_present counting every row
BirthsGroupStats_PresentCountsRows(rows) ==
    [Country |-> rows[1].Country,
     Source |-> rows[1].Source,
     earliest_date |-> Min({rows[i].Date : i \in 1..Len(rows)}),
     latest_date |-> Max({rows[i].Date : i \in 1..Len(rows)}),
     periods_total |-> Len(rows),
     periods_present |-> Len(rows),
     periods_missing |-> 0]

\* the aggregates of one (Country, Source) group (stats.py lines 21-29);
\* Date is never null, so count() is the number of rows
BirthsGroupStats(rows) ==
    LET total == Len(rows)
        present == Cardinality({i \in 1..Len(rows) : ~IsNull(rows[i].Births)})
    IN  [Country |-> rows[1].Country,
         Source |-> rows[1].Source,
         earliest_date |-> Min({rows[i].Date : i \in 1..Len(rows)}),
         latest_date |-> Max({rows[i].Date : i \in 1..Len(rows)}),
         periods_total |-> total,
         periods_present |-> present,
         periods_missing |-> total - present]

\* the values of a list of cells
Cells(s) == {s[k] : k \in 1..Len(s)}

\* the cells of one column of the groups of the country of group i
OverGroupsOfCountry(agg, i, Cell(_)) ==
    LET same == SelectSeq(agg, LAMBDA g : g.Country = agg[i].Country)
    IN  Eager([k \in 1..Len(same) |-> Cell(same[k])])

compute_births_extent_stats(b) ==
    LET keys == GroupKeys(b)
        agg == Eager([k \in 1..Len(keys) |-> BirthsGroupStats(GroupRows(b, keys[k]))])
    IN  Eager([i \in 1..Len(agg) |->
            agg[i] @@
            [earliest_date_country |->
                 Min(Cells(OverGroupsOfCountry(agg, i, LAMBDA g : g.earliest_date))),
             latest_date_country |->
                 Max(Cells(OverGroupsOfCountry(agg, i, LAMBDA g : g.latest_date))),
             periods_present_country |->
                 SumInts(OverGroupsOfCountry(agg, i, LAMBDA g : g.periods_present)),
             periods_total_country |->
                 SumInts(OverGroupsOfCountry(agg, i, LAMBDA g : g.periods_total)),
             periods_missing_country |->
                 SumInts(OverGroupsOfCountry(agg, i, LAMBDA g : g.periods_missing))]])

\* the aggregates of one (Country, Source) group (stats.py lines 57-60)
PopulationGroupStats(rows) ==
    [Country |-> rows[1].Country,
     Source |-> rows[1].Source,
     earliest_date |-> Min({rows[i].Date : i \in 1..Len(rows)}),
     latest_date |-> Max({rows[i].Date : i \in 1..Len(rows)})]

compute_population_extent_stats(pop) ==
    LET keys == GroupKeys(pop)
        agg == Eager([k \in 1..Len(keys) |->
                   PopulationGroupStats(GroupRows(pop, keys[k]))])
    IN  Eager([i \in 1..Len(agg) |->
            agg[i] @@
            [earliest_date_country |->
                 Min(Cells(OverGroupsOfCountry(agg, i, LAMBDA g : g.earliest_date))),
             latest_date_country |->
                 Max(Cells(OverGroupsOfCountry(agg, i, LAMBDA g : g.latest_date)))]])

\* a null cell of a Date column
NoDate == 0

\* left join of the births statistics with the population statistics on
\* (Country, Source), the right table's columns suffixed _population
\* (run_pipeline.py line 127)
JoinStats(bs, ps) ==
    Flatten(Eager([i \in 1..Len(bs) |->
        LET ms == SelectSeq(ps, LAMBDA r : r.Country = bs[i].Country
                                           /\ r.Source = bs[i].Source)
        IN  IF ms = <<>>
            THEN <<bs[i] @@ [earliest_date_population |-> NoDate,
                             latest_date_population |-> NoDate,
                             earliest_date_country_population |-> NoDate,
                             latest_date_country_population |-> NoDate]>>
            ELSE Eager([k \in 1..Len(ms) |->
                    bs[i] @@
                    [earliest_date_population |-> ms[k].earliest_date,
                     latest_date_population |-> ms[k].latest_date,
                     earliest_date_country_population |-> ms[k].earliest_date_country,
                     latest_date_country_population |-> ms[k].latest_date_country]])]))

\* process_data, lines 119-120 and 125-127: the statistics of the
\* interpolated population and of the indexed births, joined
ComputeStats ==
    /\ pc = "indexed"
    /\ stats' = JoinStats(compute_births_extent_stats(births),
                          compute_population_extent_stats(population))
    /\ pc' = "stats"
    /\ UNCHANGED <<args, env, files, validated, worker, outputs, raw_births,
                   raw_population, births, population>>

(***************************************************************************)
(* compute_fertility_rates                                                 *)
(***************************************************************************)
\* the join as an inner join: births rows without a population row are lost
JoinBirthsPopulation_Inner(b, pop) ==
    Flatten(Eager([i \in 1..Len(b) |->
        LET ms == SelectSeq(pop, LAMBDA r : SameKey(b[i], r))
        IN  Eager([k \in 1..Len(ms) |->
                b[i] @@ [childbearing_population |-> ms[k].childbearing_population,
                         Source_population |-> ms[k].Source,
                         Date_population |-> ms[k].Date]])]))

\* left join of births with population on (Country, Year, Month), the
\* right table's other columns suffixed _population (lines 23-28)
JoinBirthsPopulation(b, pop) ==
    Flatten(Eager([i \in 1..Len(b) |->
        LET ms == SelectSeq(pop, LAMBDA r : SameKey(b[i], r))
        IN  IF ms = <<>>
            THEN <<b[i] @@ [childbearing_population |-> Null,
                            Source_population |-> NoSource,
                            Date_population |-> 0]>>
            ELSE Eager([k \in 1..Len(ms) |->
                    b[i] @@ [childbearing_population |-> ms[k].childbearing_population,
                             Source_population |-> ms[k].Source,
                             Date_population |-> ms[k].Date]])]))

\* BirthsPerDay with every month taken as 30 days long
BirthsPerDay_Fixed30(r) == Div(r.Births, V(MONTH_NORM_DAYS))

\* Births / days_in_month (line 32)
BirthsPerDay(r) == Div(r.Births, V(r.days_in_month))

\* births_per_day / childbearing_population * 1e5 (line 37)
DailyFertilityRate(r) ==
    Mul(Div(BirthsPerDay(r), r.childbearing_population), V(RATE_SCALE))

compute_fertility_rates(b, pop) ==
    LET joined == JoinBirthsPopulation(b, pop)
    IN  Eager([i \in 1..Len(joined) |->
            joined[i] @@ [births_per_day |-> BirthsPerDay(joined[i]),
                          daily_fertility_rate |-> DailyFertilityRate(joined[i])]])

ComputeFertilityRates ==
    /\ pc = "stats"
    /\ births' = compute_fertility_rates(births, population)
    /\ pc' = "fertility"
    /\ UNCHANGED <<args, env, files, validated, worker, stats, outputs, raw_births, raw_population, population>>

(***************************************************************************)
(* compute_seasonality                                                     *)
(***************************************************************************)
\* RollingMean that averages the shorter window at the start of a series
RollingMean_PartialWindow(vals) ==
    Eager([i \in 1..Len(vals) |->
        Mean(SubSeq(vals, Max({1, i - WINDOW_SIZE + 1}), i))])

\* Expr.rolling_mean(window_size=12): null until the window holds 12
\* values, and null while one of the 12 is null
RollingMean(vals) ==
    Eager([i \in 1..Len(vals) |->
        IF i < WINDOW_SIZE THEN Null
        ELSE LET w == SubSeq(vals, i - WINDOW_SIZE + 1, i)
             IN  IF NonNullCount(w) < WINDOW_SIZE THEN Null
                 ELSE Div(Sum(w), V(WINDOW_SIZE))])

\* one country of births_t12m_ma (lines 28-35)
T12mRows(rows) ==
    LET ma == RollingMean(Column(rows, LAMBDA r : r.daily_fertility_rate))
    IN  Eager([k \in 1..Len(rows) |->
            [Country |-> rows[k].Country, Date |-> rows[k].Date, dfr_t12m_ma |-> ma[k]]])

\* left join on (Country, Date) (line 37)
JoinT12m(b, t12) ==
    Flatten(Eager([i \in 1..Len(b) |->
        LET ms == SelectSeq(t12, LAMBDA r : r.Country = b[i].Country /\ r.Date = b[i].Date)
        IN  IF ms = <<>>
            THEN <<b[i] @@ [dfr_t12m_ma |-> Null]>>
            ELSE Eager([k \in 1..Len(ms) |-> b[i] @@ [dfr_t12m_ma |-> ms[k].dfr_t12m_ma]])]))

\* the rows of the (Country, Year) group of row r
YearRows(t, r) == SelectSeq(t, LAMBDA x : x.Country = r.Country /\ x.Year = r.Year)

\* the years kept by the filter of lines 49-51:
\* pl.col('Month').count().over(['Country', 'Year']) == 12
IsFullYear(t, r) ==
    NonNullCount(Column(YearRows(t, r), LAMBDA x : V(x.Month))) = 12

\* full_year_births (lines 49-63): one row per kept (Country, Year)
FullYearBirths(t) ==
    LET kept == SelectSeq(t, LAMBDA r : IsFullYear(t, r))
        groups == {<<kept[i].Country, kept[i].Year>> : i \in 1..Len(kept)}
        rowOf(g) ==
            LET rows == SelectSeq(kept, LAMBDA x : x.Country = g[1] /\ x.Year = g[2])
                annual == Sum(Column(rows, LAMBDA x : x.Births))
                days == Sum(Column(rows, LAMBDA x : V(x.days_in_month)))
            IN  [Country |-> g[1], Year |-> g[2],
                 annual_births |-> annual,
                 days_in_year |-> days,
                 annual_births_normalized |->
                     Div(annual, Div(days, V(YEAR_NORM_DAYS)))]
    IN  {rowOf(g) : g \in groups}

\* BirthsNormalized without the 30-day normalisation
BirthsNormalized_Raw(r) == r.Births

\* Births / (days_in_month / 30) (line 69)
BirthsNormalized(r) == Div(r.Births, Div(V(r.days_in_month), V(MONTH_NORM_DAYS)))

\* the cell of column col of the full_year_births row joined to r on
\* (Country, Year), null when the year was not kept
FullYearCell(fy, r, col) ==
    LET ms == {x \in fy : x.Country = r.Country /\ x.Year = r.Year}
    IN  IF ms = {} THEN Null ELSE (CHOOSE x \in ms : TRUE)[col]

\* births_calc (lines 66-83)
BirthsCalc(b, fy) ==
    Eager([i \in 1..Len(b) |->
        [Country |-> b[i].Country, Year |-> b[i].Year, Month |-> b[i].Month,
         seasonality_percentage_normalized |->
             Div(BirthsNormalized(b[i]), FullYearCell(fy, b[i], "annual_births_normalized"))]])

\* left join of births with births_calc on (Country, Year, Month) (lines 86-90)
JoinBirthsCalc(b, calc) ==
    Flatten(Eager([i \in 1..Len(b) |->
        LET ms == SelectSeq(calc, LAMBDA r : SameKey(b[i], r))
        IN  IF ms = <<>>
            THEN <<b[i] @@ [seasonality_percentage_normalized |-> Null]>>
            ELSE Eager([k \in 1..Len(ms) |->
                    b[i] @@ [seasonality_percentage_normalized |->
                                ms[k].seasonality_percentage_normalized]])]))

compute_seasonality(b) ==
    LET t12 == Flatten(PerCountry(b, T12mRows))
        withMa == JoinT12m(b, t12)
        ratios == Eager([i \in 1..Len(withMa) |->
            withMa[i] @@
            [seasonality_ratio_t12m |->
                 Div(withMa[i].daily_fertility_rate, withMa[i].dfr_t12m_ma),
             seasonality_ratio_annual |->
                 Div(withMa[i].daily_fertility_rate,
                     Mean(Column(YearRows(withMa, withMa[i]),
                                 LAMBDA x : x.daily_fertility_rate)))]])
        fy == FullYearBirths(ratios)
        withNorm == JoinBirthsCalc(ratios, BirthsCalc(ratios, fy))
    IN  Eager([i \in 1..Len(withNorm) |->
            LET annual == FullYearCell(fy, withNorm[i], "annual_births")
            IN  withNorm[i] @@
                [annual_births |-> annual,
                 seasonality_percentage_annual |-> Div(withNorm[i].Births, annual)]])

ComputeSeasonality ==
    /\ pc = "fertility"
    /\ births' = compute_seasonality(births)
    /\ pc' = "seasonality"
    /\ UNCHANGED <<args, env, files, validated, worker, stats, outputs, raw_births, raw_population, population>>

(***************************************************************************)
(* compute_conception_rates                                                *)
(***************************************************************************)
\* ConceptionIndex without the -1 that makes the month zero-based
ConceptionIndex_OffByOne(r) == r.Year * 12 + r.Month - GESTATION_MONTHS

\* the month index shifted back by the gestation period (lines 37-38)
ConceptionIndex(r) == r.Year * 12 + r.Month - 1 - GESTATION_MONTHS

\* future_births (lines 34-41): every row re-keyed to its conception month
FutureBirths(b) ==
    Eager([i \in 1..Len(b) |->
        [Country |-> b[i].Country,
         conception_year |-> ConceptionIndex(b[i]) \div 12,
         conception_month |-> (ConceptionIndex(b[i]) % 12) + 1,
         future_births |-> b[i].Births,
         future_days_in_month |-> V(b[i].days_in_month)]])

\* JoinFutureBirths without Country among the join keys
JoinFutureBirths_AnyCountry(b, fut) ==
    Flatten(Eager([i \in 1..Len(b) |->
        LET ms == SelectSeq(fut, LAMBDA r :
                      /\ r.conception_year = b[i].Year
                      /\ r.conception_month = b[i].Month)
        IN  IF ms = <<>>
            THEN <<b[i] @@ [future_births |-> Null, future_days_in_month |-> Null]>>
            ELSE Eager([k \in 1..Len(ms) |->
                    b[i] @@ [future_births |-> ms[k].future_births,
                             future_days_in_month |-> ms[k].future_days_in_month]])]))

\* left join on (Country, Year, Month) = (Country, conception_year,
\* conception_month) (lines 45-50)
JoinFutureBirths(b, fut) ==
    Flatten(Eager([i \in 1..Len(b) |->
        LET ms == SelectSeq(fut, LAMBDA r :
                      /\ r.Country = b[i].Country
                      /\ r.conception_year = b[i].Year
                      /\ r.conception_month = b[i].Month)
        IN  IF ms = <<>>
            THEN <<b[i] @@ [future_births |-> Null, future_days_in_month |-> Null]>>
            ELSE Eager([k \in 1..Len(ms) |->
                    b[i] @@ [future_births |-> ms[k].future_births,
                             future_days_in_month |-> ms[k].future_days_in_month]])]))

\* future_births / future_days_in_month (line 54)
FutureBirthsPerDay(r) == Div(r.future_births, r.future_days_in_month)

\* future_births_per_day / childbearing_population * 1e5 (line 59)
DailyConceptionRate(r) ==
    Mul(Div(FutureBirthsPerDay(r), r.childbearing_population), V(RATE_SCALE))

\* compute_conception_rates dividing by the population of the month of
\* birth (M+10) instead of the population of the current row
compute_conception_rates_FuturePop(b) ==
    LET joined == JoinFutureBirths(b, FutureBirths(b))
        futurePop(r) ==
            LET ms == SelectSeq(b, LAMBDA x : x.Country = r.Country
                                   /\ x.Date = r.Date + GESTATION_MONTHS)
            IN  IF ms = <<>> THEN Null ELSE ms[1].childbearing_population
    IN  Eager([i \in 1..Len(joined) |->
            joined[i] @@ [future_births_per_day |-> FutureBirthsPerDay(joined[i]),
                          daily_conception_rate |->
                              Mul(Div(FutureBirthsPerDay(joined[i]), futurePop(joined[i])),
                                  V(RATE_SCALE))]])

compute_conception_rates(b) ==
    LET joined == JoinFutureBirths(b, FutureBirths(b))
    IN  Eager([i \in 1..Len(joined) |->
            joined[i] @@ [future_births_per_day |-> FutureBirthsPerDay(joined[i]),
                          daily_conception_rate |-> DailyConceptionRate(joined[i])]])

ComputeConceptionRates ==
    /\ pc = "seasonality"
    /\ births' = compute_conception_rates(births)
    /\ pc' = "conception"
    /\ UNCHANGED <<args, env, files, validated, worker, stats, outputs, raw_births, raw_population, population>>

(***************************************************************************)
(* Inclusion filters and the countries index (exporters/json_exporter.py;  *)
(* exporters/states_exporter.py repeats the same code for the states).     *)
(***************************************************************************)
\* compute_complete_years that counts the months with Births instead of the
\* months with a daily_fertility_rate
compute_complete_years_BirthsOnly(b, country_name) ==
    LET valid_data == SelectSeq(RowsOf(b, country_name), LAMBDA r : ~IsNull(r.Births))
        years == {valid_data[i].Year : i \in 1..Len(valid_data)}
    IN  Cardinality({y \in years :
            Cardinality({valid_data[i].Month :
                i \in {k \in 1..Len(valid_data) : valid_data[k].Year = y}}) = 12})

\* compute_complete_years: the years of the country in which the rows with
\* a non-null daily_fertility_rate have 12 distinct months
compute_complete_years(b, country_name) ==
    LET country_data == RowsOf(b, country_name)
        valid_data == SelectSeq(country_data,
                                LAMBDA r : ~IsNull(r.daily_fertility_rate))
        years == {valid_data[i].Year : i \in 1..Len(valid_data)}
        month_count(y) ==
            Cardinality({valid_data[i].Month :
                            i \in {k \in 1..Len(valid_data) : valid_data[k].Year = y}})
    IN  Cardinality({y \in years : month_count(y) = 12})

\* sorted(births['Country'].unique().to_list())
AllCountries(b) == Ascending(CountriesOf(b))

\* filter_countries_by_min_years with an exclusive bound
filter_countries_by_min_years_Exclusive(b, min_years) ==
    LET all == AllCountries(b)
        Passes(c) == compute_complete_years(b, c) > min_years
        out == SelectSeq(all, LAMBDA c : ~Passes(c))
    IN  [included |-> SelectSeq(all, Passes),
         excluded |-> Eager([i \in 1..Len(out) |->
                         <<out[i], compute_complete_years(b, out[i])>>])]

\* filter_countries_by_min_years: (included, excluded with their counts)
filter_countries_by_min_years(b, min_years) ==
    LET all == AllCountries(b)
        Passes(c) == compute_complete_years(b, c) >= min_years
        out == SelectSeq(all, LAMBDA c : ~Passes(c))
    IN  [included |-> SelectSeq(all, Passes),
         excluded |-> Eager([i \in 1..Len(out) |->
                         <<out[i], compute_complete_years(b, out[i])>>])]

\* Series.min(): the least non-null value, null (None) when there is none
SeriesMin(vals) ==
    LET nn == {i \in 1..Len(vals) : ~IsNull(vals[i])}
    IN  IF nn = {} THEN Null
        ELSE vals[CHOOSE i \in nn : \A j \in nn : LeqNum(vals[i], vals[j])]

\* int(x) of a finite float: truncation towards zero
IntOf(v) == Sign(v[2]) * (Abs(v[2]) \div v[3])

\* filter_countries_by_min_monthly_births with an exclusive bound
filter_countries_by_min_monthly_births_Exclusive(b, min_monthly_births) ==
    LET all == AllCountries(b)
        min_births_value(c) == SeriesMin(Column(RowsOf(b, c), LAMBDA r : r.Births))
        Passes(c) ==
            /\ ~IsNull(min_births_value(c))
            /\ ~LeqNum(min_births_value(c), V(min_monthly_births))
        out == SelectSeq(all, LAMBDA c : ~Passes(c))
    IN  [included |-> SelectSeq(all, Passes),
         excluded |-> Eager([i \in 1..Len(out) |->
                         <<out[i],
                           IF IsNull(min_births_value(out[i])) THEN 0
                           ELSE IntOf(min_births_value(out[i]))>>])]

\* filter_countries_by_min_monthly_births: (included, excluded with their
\* minimum, 0 for a country without any Births value)
filter_countries_by_min_monthly_births(b, min_monthly_births) ==
    LET all == AllCountries(b)
        min_births_value(c) == SeriesMin(Column(RowsOf(b, c), LAMBDA r : r.Births))
        Passes(c) ==
            /\ ~IsNull(min_births_value(c))
            /\ LeqNum(V(min_monthly_births), min_births_value(c))
        out == SelectSeq(all, LAMBDA c : ~Passes(c))
    IN  [included |-> SelectSeq(all, Passes),
         excluded |-> Eager([i \in 1..Len(out) |->
                         <<out[i],
                           IF IsNull(min_births_value(out[i])) THEN 0
                           ELSE IntOf(min_births_value(out[i]))>>])]

\* the elements of a list as a set
ToSet(s) == {s[i] : i \in 1..Len(s)}

\* one entry of countries.json (lines 180-221)
CountryEntry(b, country_name) ==
    LET country_data == RowsOf(b, country_name)
        years == {country_data[i].Year : i \in 1..Len(country_data)}
        conception_data == SelectSeq(country_data,
                                     LAMBDA r : ~IsNull(r.daily_conception_rate))
    IN  [name |-> country_name,
         completeYears |-> compute_complete_years(b, country_name),
         yearRange |-> <<Min(years), Max(years)>>,
         hasConception |-> Len(conception_data) > 0]

\* export_countries_index without the births filter
export_countries_index_YearsOnly(b, min_years, min_monthly_births) ==
    LET by_years == filter_countries_by_min_years(b, min_years)
    IN  [included |-> by_years.included,
         excluded_by_years |-> by_years.excluded,
         excluded_by_births |-> <<>>,
         countries |-> Eager([i \in 1..Len(by_years.included) |->
                          CountryEntry(b, by_years.included[i])])]

\* export_countries_index with the births filter run on the whole table
export_countries_index_UnfilteredBirths(b, min_years, min_monthly_births) ==
    LET by_years == filter_countries_by_min_years(b, min_years)
        by_births == filter_countries_by_min_monthly_births(b, min_monthly_births)
        both == SelectSeq(by_births.included,
                          LAMBDA c : c \in ToSet(by_years.included))
    IN  [included |-> both,
         excluded_by_years |-> by_years.excluded,
         excluded_by_births |-> by_births.excluded,
         countries |-> Eager([i \in 1..Len(both) |-> CountryEntry(b, both[i])])]

\* export_countries_index: the years filter, then the births filter on the
\* countries that passed the first, then the index of the countries that
\* passed both
export_countries_index(b, min_years, min_monthly_births) ==
    LET by_years == filter_countries_by_min_years(b, min_years)
        births_filtered ==
            SelectSeq(b, LAMBDA r : r.Country \in ToSet(by_years.included))
        by_births ==
            filter_countries_by_min_monthly_births(births_filtered, min_monthly_births)
    IN  [included |-> by_births.included,
         excluded_by_years |-> by_years.excluded,
         excluded_by_births |-> by_births.excluded,
         countries |-> Eager([i \in 1..Len(by_births.included) |->
                          CountryEntry(b, by_births.included[i])])]

(***************************************************************************)
(* The steps of main after process_data (scripts/run_pipeline.py, lines    *)
(* 437-474), with no --output-dir given.                                   *)
(***************************************************************************)
WantsCsv == args.csv \/ args.all
WantsJson == args.json \/ args.all
WantsCharts == args.charts \/ args.all

\* the non-nullable columns of the schemas (schemas/__init__.py); the
\* dtypes of the columns are not modelled
BirthsSchema ==
    {"Country", "Year", "Month", "days_in_month", "Date", "Source"}
PopulationSchema == {"Country", "Year", "Month", "Source", "Date"}
StatsSchema ==
    {"Country", "Source", "earliest_date", "latest_date", "periods_total",
     "periods_present", "periods_missing", "earliest_date_country",
     "latest_date_country", "periods_present_country", "periods_total_country",
     "periods_missing_country"}

\* Schema.validate: every row has the columns and no null in them
Conforms(t, schema) ==
    \A i \in 1..Len(t) :
        /\ schema \subseteq DOMAIN t[i]
        /\ t[i].Source # NoSource
        /\ \A col \in schema \cap {"Date", "earliest_date", "latest_date",
                                   "earliest_date_country", "latest_date_country"} :
              t[i][col] # NoDate

\* lines 141-148
validate_data(b, pop, st) ==
    /\ Conforms(b, BirthsSchema)
    /\ Conforms(pop, PopulationSchema)
    /\ Conforms(st, StatsSchema)

\* line 438: validate_data raises on the first table that does not conform
ValidateData ==
    /\ pc = "conception"
    /\ IF validate_data(births, population, stats)
       THEN validated' = {"births", "population", "stats"} /\ pc' = "validated"
       ELSE validated' = validated /\ pc' = "aborted"
    /\ UNCHANGED <<args, env, stats, raw_births, raw_population, births,
                   population, files, worker, outputs>>

\* clear_directory_contents (lines 151-172): every file and every
\* subdirectory of the directory is removed
clear_directory_contents(fs, directory) ==
    [p \in {q \in DOMAIN fs : ~Inside(q, directory)} |-> fs[p]]

\* lines 175-195
clear_csv_output(fs) == Unlink(fs, CsvFiles)

\* lines 198-237
clear_json_output(fs) ==
    LET a == clear_directory_contents(fs, FERTILITY_OUTPUT_DIR)
        b == clear_directory_contents(a, SEASONALITY_OUTPUT_DIR)
        c == clear_directory_contents(b, CONCEPTION_OUTPUT_DIR)
        d == Unlink(c, {Child(JSON_OUTPUT_DIR, "countries.json")})
        e == clear_directory_contents(d, FRONTEND_ASSETS_FERTILITY_DIR)
        f == clear_directory_contents(e, FRONTEND_ASSETS_SEASONALITY_DIR)
        g == clear_directory_contents(f, FRONTEND_ASSETS_CONCEPTION_DIR)
    IN  Unlink(g, {Child(FRONTEND_ASSETS_DATA_DIR, "countries.json")})

\* lines 240-256
clear_charts_output(fs) ==
    clear_directory_contents(clear_directory_contents(fs, CHARTS_OUTPUT_DIR),
                             FRONTEND_CONTENT_CHARTS_DIR)

\* lines 440-448: the outputs of the formats of this run are cleared
ClearOutputs ==
    /\ pc = "validated"
    /\ LET a == IF WantsCsv THEN clear_csv_output(files) ELSE files
           b == IF WantsJson THEN clear_json_output(a) ELSE a
       IN  files' = IF WantsCharts THEN clear_charts_output(b) ELSE b
    /\ pc' = "cleared"
    /\ UNCHANGED <<args, env, stats, raw_births, raw_population, births,
                   population, validated, worker, outputs>>

\* lines 451-452: export_csv
ExportCsv ==
    /\ pc = "cleared"
    /\ csv_written' = WantsCsv
    /\ files' = IF WantsCsv THEN WriteFiles(files, CsvFiles, <<"csv", 0>>) ELSE files
    /\ pc' = "csv"
    /\ UNCHANGED <<args, env, stats, raw_births, raw_population, births, population,
                   validated, worker,
                   filtered_countries, countries_json, excluded_by_years,
                   excluded_by_births, json_exported, chart_countries,
                   charts_exported>>

\* lines 454-455, export_json -> export_all_countries up to the submission
\* of its tasks (json_exporter.py lines 667-698): export_countries_index
\* writes countries.json twice (lines 236-244)
ExportCountriesIndex ==
    /\ pc = "csv"
    /\ WantsJson
    /\ LET index == export_countries_index(births, args.min_years,
                                           args.min_monthly_births)
       IN  /\ filtered_countries' = <<index.included>>
           /\ countries_json' = index.countries
           /\ excluded_by_years' = index.excluded_by_years
           /\ excluded_by_births' = index.excluded_by_births
           /\ worker' = [c \in ToSet(index.included) |-> "queued"]
    /\ files' = WriteFiles(files, {Child(JSON_OUTPUT_DIR, "countries.json"),
                                   Child(FRONTEND_ASSETS_DATA_DIR, "countries.json")},
                           <<"index", 0>>)
    /\ pc' = "json"
    /\ UNCHANGED <<args, env, stats, raw_births, raw_population, births, population,
                   validated,
                   csv_written, json_exported, chart_countries, charts_exported>>

\* the tasks that a thread of the pool is working on
Running == {c \in DOMAIN worker : worker[c] \in {"fertility", "seasonality"}}

\* a thread of the pool takes the task of country c: the tasks are taken in
\* the order of their submission, by at most max_workers threads at a time
Takes(c) ==
    /\ worker[c] = "queued"
    /\ Cardinality(Running) < max_workers
    /\ \A i, j \in 1..Len(filtered_countries[1]) :
          filtered_countries[1][j] = c /\ i < j
              => worker[filtered_countries[1][i]] # "queued"

\* the file of country c in a directory
CountryJson(dir, c) == SlugFile(dir, get_country_slug(country_names[c]), ".json")

\* _export_country_json, lines 486-534: the fertility file and its copy
WriteFertilityJson ==
    /\ pc = "json"
    /\ \E c \in DOMAIN worker :
          /\ Takes(c)
          /\ files' = WriteFiles(files, {CountryJson(FERTILITY_OUTPUT_DIR, c),
                                         CountryJson(FRONTEND_ASSETS_FERTILITY_DIR, c)},
                                 <<"fertility", c>>)
          /\ worker' = [worker EXCEPT ![c] = "fertility"]
    /\ UNCHANGED <<args, env, stats, raw_births, raw_population, births, population,
                   pc, validated, outputs>>

\* _export_country_json, lines 536-593: the seasonality file and its copy
WriteSeasonalityJson ==
    /\ pc = "json"
    /\ \E c \in DOMAIN worker :
          /\ worker[c] = "fertility"
          /\ files' = WriteFiles(files, {CountryJson(SEASONALITY_OUTPUT_DIR, c),
                                         CountryJson(FRONTEND_ASSETS_SEASONALITY_DIR, c)},
                                 <<"seasonality", c>>)
          /\ worker' = [worker EXCEPT ![c] = "seasonality"]
    /\ UNCHANGED <<args, env, stats, raw_births, raw_population, births, population,
                   pc, validated, outputs>>

\* the country has a row with a daily_conception_rate (line 596-598)
HasConceptionData(b, c) ==
    \E i \in 1..Len(b) : b[i].Country = c /\ ~IsNull(b[i].daily_conception_rate)

\* _export_country_json, lines 595-644: the conception file and its copy,
\* if the country has conception data, and the return of the task
WriteConceptionJson ==
    /\ pc = "json"
    /\ \E c \in DOMAIN worker :
          /\ worker[c] = "seasonality"
          /\ files' = IF HasConceptionData(births, c)
                      THEN WriteFiles(files,
                               {CountryJson(CONCEPTION_OUTPUT_DIR, c),
                                CountryJson(FRONTEND_ASSETS_CONCEPTION_DIR, c)},
                               <<"conception", c>>)
                      ELSE files
          /\ worker' = [worker EXCEPT ![c] = "done"]
          /\ json_exported' = json_exported \cup {c}
    /\ UNCHANGED <<args, env, stats, raw_births, raw_population, births, population,
                   pc, validated, csv_written, filtered_countries, countries_json,
                   excluded_by_years, excluded_by_births, chart_countries,
                   charts_exported>>

\* a task raises before its next write (an OSError of mkdir or open);
\* export_all_countries prints the error and goes on (lines 699-707)
WorkerRaises ==
    /\ pc = "json"
    /\ \E c \in DOMAIN worker :
          /\ Takes(c) \/ worker[c] \in {"fertility", "seasonality"}
          /\ worker' = [worker EXCEPT ![c] = "failed"]
    /\ UNCHANGED <<args, env, stats, raw_births, raw_population, births, population,
                   pc, files, validated, outputs>>

\* every future of export_all_countries has completed (line 699)
JsonExportReturned ==
    pc = "json" /\ \A c \in DOMAIN worker : worker[c] \in {"done", "failed"}

\* the chart of country c in a charts directory
CountryChart(dir, c) ==
    Child(dir \o <<get_country_slug(country_names[c])>>, "births_chart.png")

\* lines 457-459, export_charts -> export_all_charts up to the start of its
\* workers (chart_exporter.py lines 640-672): the filtered countries of the
\* JSON export if there was one, else every country
ExportCharts ==
    /\ \/ (pc = "csv" /\ ~WantsJson)
       \/ JsonExportReturned
    /\ chart_countries' =
          IF ~WantsCharts THEN <<>>
          ELSE IF filtered_countries = <<>> THEN AllCountries(births)
          ELSE filtered_countries[1]
    /\ pc' = "charts"
    /\ UNCHANGED <<args, env, stats, raw_births, raw_population, births, population,
                   files, validated, worker,
                   csv_written, filtered_countries, countries_json,
                   excluded_by_years, excluded_by_births, json_exported,
                   charts_exported>>

\* one worker of export_all_charts (chart_exporter.py lines 591-618):
\* export_country_charts for one of the countries
ExportCountryCharts ==
    /\ pc = "charts"
    /\ \E c \in ToSet(chart_countries) \ charts_exported :
          /\ charts_exported' = charts_exported \cup {c}
          /\ files' = WriteFile(files, CountryChart(CHARTS_OUTPUT_DIR, c), <<"chart", c>>)
    /\ UNCHANGED <<args, env, stats, raw_births, raw_population, births, population, pc,
                   validated, worker,
                   csv_written, filtered_countries, countries_json,
                   excluded_by_years, excluded_by_births, json_exported,
                   chart_countries>>

\* _copy_charts_to_frontend (chart_exporter.py lines 692-722): the PNG
\* files of every subdirectory of the charts directory are copied
copy_charts_to_frontend(fs) ==
    LET n == Len(CHARTS_OUTPUT_DIR)
        charts == {p \in DOMAIN fs : Inside(p, CHARTS_OUTPUT_DIR) /\ Len(p) = n + 2}
        Dest(p) == FRONTEND_CONTENT_CHARTS_DIR \o SubSeq(p, n + 1, n + 2)
        dests == {Dest(p) : p \in charts}
    IN  [q \in DOMAIN fs \cup dests |->
            IF q \in dests THEN fs[CHOOSE p \in charts : Dest(p) = q] ELSE fs[q]]

\* the end of export_all_charts (chart_exporter.py lines 686-689)
CopyChartsToFrontend ==
    /\ pc = "charts"
    /\ WantsCharts
    /\ charts_exported = ToSet(chart_countries)
    /\ files' = copy_charts_to_frontend(files)
    /\ pc' = "charts_copied"
    /\ UNCHANGED <<args, env, stats, raw_births, raw_population, births, population,
                   validated, worker, outputs>>

\* line 461: the country part of main is over
CountriesOver ==
    \/ pc = "skipped"
    \/ (pc = "charts" /\ ~WantsCharts)
    \/ pc = "charts_copied"

\* the columns of the table of states.load_births_with_fertility
\* (loaders/states.py lines 59-64 and 338-358)
StateTableColumns ==
    {"Country", "Year", "Month", "Births", "days_in_month",
     "childbearing_population", "births_per_day", "daily_fertility_rate"}

\* the columns that compute_seasonality reads (seasonality.py lines 28-69)
SeasonalityInputColumns ==
    {"Country", "Date", "daily_fertility_rate", "Year", "Month", "Births",
     "days_in_month"}

\* lines 462-463, load_and_process_state_data: compute_seasonality raises
\* on a column that the table of the loader does not have
LoadAndProcessStateData ==
    /\ CountriesOver
    /\ args.states
    /\ pc' = IF SeasonalityInputColumns \subseteq StateTableColumns
             THEN "states" ELSE "aborted"
    /\ UNCHANGED <<args, env, stats, raw_births, raw_population, births, population,
                   files, validated, worker, outputs>>

\* lines 476-478 without --states
Complete ==
    /\ CountriesOver
    /\ ~args.states
    /\ pc' = "done"
    /\ UNCHANGED <<args, env, stats, raw_births, raw_population, births, population,
                   files, validated, worker, outputs>>

Next ==
    \/ InterpolatePopulation
    \/ CreateBirthsMonthlyIndex
    \/ ComputeStats
    \/ ComputeFertilityRates
    \/ ComputeSeasonality
    \/ ComputeConceptionRates
    \/ ValidateData
    \/ ClearOutputs
    \/ ExportCsv
    \/ ExportCountriesIndex
    \/ WriteFertilityJson
    \/ WriteSeasonalityJson
    \/ WriteConceptionJson
    \/ WorkerRaises
    \/ ExportCharts
    \/ ExportCountryCharts
    \/ CopyChartsToFrontend
    \/ LoadAndProcessStateData
    \/ Complete

Spec == Init /\ [][Next]_vars


(***************************************************************************)
(* The functions of the state-level export (exporters/states_exporter.py), *)
(* applied to bounded inputs.                                              *)
(***************************************************************************)
MaxTrimLen == 4
TrimKeys == {<<2019, 3>>, <<2020, 1>>, <<2020, 2>>}
TrimValues == {Null, NaN, Num(1, 1)}
TrimEntries == {[year |-> k[1], month |-> k[2], value |-> v] : k \in TrimKeys, v \in TrimValues}
TrimInputs == UNION {[1..n -> TrimEntries] : n \in 0..MaxTrimLen}

\* the sort key (x['year'], x['month']) of line 62 and its order
KeyLess(x, y) == x.year < y.year \/ (x.year = y.year /\ x.month < y.month)

\* sorted(data, key=...): stable, entries with equal keys keep their order
RECURSIVE SortedByYearMonth(_)
SortedByYearMonth(d) ==
    IF d = <<>> THEN <<>>
    ELSE LET x == d[Len(d)]
             front == SortedByYearMonth(SubSeq(d, 1, Len(d) - 1))
             k == Cardinality({i \in 1..Len(front) : ~KeyLess(x, front[i])})
         IN  SubSeq(front, 1, k) \o <<x>> \o SubSeq(front, k + 1, Len(front))

\* item.get(value_key) is not None
IsValid(item) == ~IsNull(item.value)

trim_leading_trailing_nulls_Unsorted(d) ==
    LET valid == {i \in 1..Len(d) : IsValid(d[i])}
    IN  IF valid = {} THEN <<>>
        ELSE SubSeq(d, CHOOSE i \in valid : \A j \in valid : i <= j,
                       CHOOSE i \in valid : \A j \in valid : j <= i)

\* lines 52-79
trim_leading_trailing_nulls(d) ==
    IF d = <<>> THEN d
    ELSE LET sorted_data == SortedByYearMonth(d)
             valid == {i \in 1..Len(sorted_data) : IsValid(sorted_data[i])}
         IN  IF valid = {} THEN <<>>
             ELSE SubSeq(sorted_data,
                         CHOOSE i \in valid : \A j \in valid : i <= j,
                         CHOOSE i \in valid : \A j \in valid : j <= i)

\* the annual population table of the states: NumStateYears years from
\* FirstYear on for each of two states, a year with or without a value (the
\* Month of a row is a placeholder until Explode sets it)
NumStateYears == 3
StateYears == FirstYear..(FirstYear + NumStateYears - 1)
States == {1, 2}
AnnualValues == {Null, V(12), V(24)}
StatePopulationInputs ==
    {SortRows(Eager([i \in 1..(2 * NumStateYears) |->
        LET st == (i - 1) \div NumStateYears + 1
            y == FirstYear + ((i - 1) % NumStateYears)
        IN  [Country |-> st, Year |-> y, Month |-> 1,
             childbearing_population |-> f[<<st, y>>],
             Source |-> "census"]])) :
        f \in [States \X StateYears -> AnnualValues]}

\* with_columns(int_ranges(1, 13)).explode('Month') (loaders/states.py
\* lines 272-277): twelve rows for each row, each with the value of the row
Explode(pop) ==
    Eager([i \in 1..(12 * Len(pop)) |->
        [pop[(i - 1) \div 12 + 1] EXCEPT !.Month = ((i - 1) % 12) + 1]])

\* loaders/states.py lines 259-290
expand_population_to_monthly(pop) ==
    LET monthly == SortRows(Explode(pop))
        popcol == OverCountry(monthly, InterpolateWithin)
    IN  Eager([i \in 1..Len(monthly) |->
            [monthly[i] EXCEPT !.childbearing_population = popcol[i]]])

\* the values of the variables of main while the functions are applied
MainIdle ==
    /\ args = ResolveArgs(PlainArgs)
    /\ country_names = PlainNames
    /\ max_workers = MaxWorkers
    /\ raw_births = <<>>
    /\ raw_population = <<>>
    /\ births = <<>>
    /\ population = <<>>
    /\ stats = <<>>
    /\ pc = "functions"
    /\ files = PreviousOutputs
    /\ validated = {}
    /\ worker = <<>>
    /\ csv_written = FALSE
    /\ filtered_countries = <<>>
    /\ countries_json = <<>>
    /\ excluded_by_years = <<>>
    /\ excluded_by_births = <<>>
    /\ json_exported = {}
    /\ chart_countries = <<>>
    /\ charts_exported = {}

main_vars ==
    <<args, country_names, max_workers, raw_births, raw_population, births,
      population, stats, pc, files, validated, worker, outputs>>

InitFunctions ==
    /\ MainIdle
    /\ \/ data \in TrimInputs /\ state_population = <<>>
       \/ data = <<>> /\ state_population \in StatePopulationInputs
    /\ result = <<>>
    /\ state_monthly = <<>>

\* one call of trim_leading_trailing_nulls(data, 'value')
TrimLeadingTrailingNulls ==
    /\ result = <<>>
    /\ result' = <<trim_leading_trailing_nulls(data)>>
    /\ UNCHANGED <<main_vars, data, state_population, state_monthly>>

\* one call of expand_population_to_monthly(population)
ExpandPopulationToMonthly ==
    /\ state_monthly = <<>>
    /\ state_monthly' = <<expand_population_to_monthly(state_population)>>
    /\ UNCHANGED <<main_vars, data, result, state_population>>

NextFunctions ==
    \/ TrimLeadingTrailingNulls
    \/ ExpandPopulationToMonthly

SpecFunctions == InitFunctions /\ [][NextFunctions]_vars


(***************************************************************************)
(* Vocabulary of the properties.                                           *)
(***************************************************************************)
\* process_data has returned and no output has been touched yet; the later
\* steps of main leave the tables as they are
Processed == pc \in {"conception", "validated"}
HasIndex == pc \in {"indexed", "stats", "fertility", "seasonality"} \/ Processed
HasFertility == pc \in {"fertility", "seasonality"} \/ Processed
HasSeasonality == pc = "seasonality" \/ Processed
HasConception == Processed

Rows(t) == {t[i] : i \in 1..Len(t)}
DateOf(r) == MkDate(r.Year, r.Month)

\* the months of country c that have a raw births observation
ObservedDates(c) == {DateOf(r) : r \in {x \in Rows(raw_births) : x.Country = c}}

\* the rows of the births table for country c and month d
BirthsAt(c, d) == {i \in 1..Len(births) : births[i].Country = c /\ DateOf(births[i]) = d}

\* the interpolated population rows for country c and month d
PopulationAt(c, d) == {r \in Rows(population) : r.Country = c /\ DateOf(r) = d}

IsPositive(v) == IsNum(v) /\ v[2] > 0

\* the rows of the year of row r in the births table
YearOf(r) == {x \in Rows(births) : x.Country = r.Country /\ x.Year = r.Year}

\* all 12 calendar months of the year of r have a row with non-null Births
CompleteYear(r) ==
    \A m \in 1..12 : \E x \in YearOf(r) : x.Month = m /\ ~IsNull(x.Births)

\* the cells of one column over the 12 months of the year of r, as a sequence
YearCells(r, col) ==
    Eager([m \in 1..12 |-> (CHOOSE x \in YearOf(r) : x.Month = m)[col]])

(***************************************************************************)
(* C1: in the output of create_births_monthly_index every country has      *)
(* exactly one row for every calendar month from its earliest to its       *)
(* latest raw observation, and no other row.                               *)
(***************************************************************************)
C1_GaplessMonthlyIndex ==
    pc = "indexed" =>
        /\ CountriesOf(births) = CountriesOf(raw_births)
        /\ \A c \in CountriesOf(raw_births) :
              LET lo == Min(ObservedDates(c))
                  hi == Max(ObservedDates(c))
              IN  /\ \A d \in lo..hi : Cardinality(BirthsAt(c, d)) = 1
                  /\ \A r \in Rows(births) : r.Country = c => DateOf(r) \in lo..hi

\* an unsorted raw table in which country 1 lacks a month inside its range
C1_Witness ==
    /\ pc = "indexed"
    /\ \E i \in 1..(Len(raw_births) - 1) : ~KeyLE(raw_births[i], raw_births[i + 1])
    /\ \E d \in Min(ObservedDates(1))..Max(ObservedDates(1)) :
          /\ d \notin ObservedDates(1)
          /\ \E i \in BirthsAt(1, d) : IsNull(births[i].Births)

(***************************************************************************)
(* C2: wherever Births is non-null and the interpolated population of the  *)
(* same country and month is positive, births_per_day times the calendar   *)
(* length of the month is Births, and daily_fertility_rate times that      *)
(* population times the length of the month is Births times 100000.        *)
(***************************************************************************)
C2_FertilityRateFormula ==
    HasFertility =>
        \A r \in Rows(births) : \A p \in PopulationAt(r.Country, DateOf(r)) :
            (~IsNull(r.Births) /\ IsPositive(p.childbearing_population)) =>
                /\ r.childbearing_population = p.childbearing_population
                /\ Mul(r.births_per_day, V(DaysInMonth(r.Year, r.Month))) = r.Births
                /\ Mul(Mul(r.daily_fertility_rate, p.childbearing_population),
                       V(DaysInMonth(r.Year, r.Month)))
                   = Mul(r.Births, V(RATE_SCALE))

\* a 31-day month with births and an interpolated (fractional) population
C2_Witness ==
    /\ pc = "fertility"
    /\ \E r \in Rows(births) : \E p \in PopulationAt(r.Country, DateOf(r)) :
          /\ r.Country = 1 /\ DaysInMonth(r.Year, r.Month) = 31
          /\ IsPositive(r.Births)
          /\ IsPositive(p.childbearing_population)
          /\ p.childbearing_population[3] # 1
          /\ IsPositive(r.daily_fertility_rate)

(***************************************************************************)
(* C3: daily_fertility_rate is null wherever Births is null, the           *)
(* population is null or the population is 0.                              *)
(***************************************************************************)
C3_NullRateOnMissingOrZero ==
    HasFertility =>
        \A r \in Rows(births) :
            (IsNull(r.Births) \/ IsNull(r.childbearing_population)
                \/ r.childbearing_population = V(0))
            => IsNull(r.daily_fertility_rate)

(***************************************************************************)
(* C4: in a year of a country in which one of the 12 calendar months has   *)
(* null Births or no row, both seasonality percentages are null in every   *)
(* month of that year.                                                     *)
(***************************************************************************)
C4_IncompleteYearIsNull ==
    HasSeasonality =>
        \A r \in Rows(births) :
            ~CompleteYear(r) =>
                /\ IsNull(r.seasonality_percentage_annual)
                /\ IsNull(r.seasonality_percentage_normalized)

(***************************************************************************)
(* C5: in a year of a country in which all 12 values of                    *)
(* seasonality_percentage_annual are non-null, the 12 values sum to 1.     *)
(***************************************************************************)
AllTwelveNonNull(r, col) ==
    \A m \in 1..12 : \E x \in YearOf(r) : x.Month = m /\ ~IsNull(x[col])

C5_AnnualPercentagesSumToOne ==
    HasSeasonality =>
        \A r \in Rows(births) :
            AllTwelveNonNull(r, "seasonality_percentage_annual") =>
                Sum(YearCells(r, "seasonality_percentage_annual")) = V(1)

(***************************************************************************)
(* C6: in a year of a country in which all 12 values of                    *)
(* seasonality_percentage_normalized are non-null, the 12 values sum to 1  *)
(* whatever the distribution of the births over the months.                *)
(***************************************************************************)
C6_NormalizedPercentagesSumToOne ==
    HasSeasonality =>
        \A r \in Rows(births) :
            AllTwelveNonNull(r, "seasonality_percentage_normalized") =>
                Sum(YearCells(r, "seasonality_percentage_normalized")) = V(1)

\* the calendar length of the year of r
DaysInYear(r) == IF IsLeap(r.Year) THEN 366 ELSE 365

\* the births of the year of r, and the sum of its monthly births per day
AnnualBirths(r) == Sum(YearCells(r, "Births"))
PerDaySum(r) ==
    Sum(Eager([m \in 1..12 |->
        Div(YearCells(r, "Births")[m], V(DaysInMonth(r.Year, m)))]))

\* the births per day are the same in all 12 months of the year of r
UniformPerDay(r) ==
    \A m \in 1..12 :
        Div(YearCells(r, "Births")[m], V(DaysInMonth(r.Year, m)))
        = Div(YearCells(r, "Births")[1], V(DaysInMonth(r.Year, 1)))

(***************************************************************************)
(* C6 as amended: in such a year each value times annual births times 360  *)
(* times the days of the month equals Births times 30 times the days of    *)
(* the year; with positive annual births the 12 values sum to              *)
(* days_in_year / (12 * annual births) * (sum of monthly births per day),  *)
(* which is 1 when the births per day are the same in all 12 months; with  *)
(* annual births of 0 all 12 values are NaN.                               *)
(***************************************************************************)
C6_NormalizedPercentagesSum ==
    HasSeasonality =>
        \A r \in Rows(births) :
            AllTwelveNonNull(r, "seasonality_percentage_normalized") =>
                LET total == Sum(YearCells(r, "seasonality_percentage_normalized"))
                IN  /\ CompleteYear(r)
                    /\ IsPositive(AnnualBirths(r)) =>
                          /\ Mul(Mul(r.seasonality_percentage_normalized, AnnualBirths(r)),
                                 V(YEAR_NORM_DAYS * DaysInMonth(r.Year, r.Month)))
                             = Mul(r.Births, V(MONTH_NORM_DAYS * DaysInYear(r)))
                          /\ Mul(Mul(total, AnnualBirths(r)), V(12))
                             = Mul(PerDaySum(r), V(DaysInYear(r)))
                          /\ UniformPerDay(r) => total = V(1)
                    /\ AnnualBirths(r) = V(0) =>
                          IsNaN(r.seasonality_percentage_normalized)

\* a leap year with the same positive births per day in every month
C6_Witness ==
    /\ pc = "seasonality"
    /\ \E r \in Rows(births) :
          /\ AllTwelveNonNull(r, "seasonality_percentage_normalized")
          /\ IsLeap(r.Year)
          /\ IsPositive(AnnualBirths(r))
          /\ UniformPerDay(r)

(***************************************************************************)
(* C7: when the series of a country has a row 10 calendar months after     *)
(* the month of a row, future_births and future_days_in_month of the row   *)
(* are Births and days_in_month of that later row of the same country.     *)
(***************************************************************************)
C7_FutureBirthsAlign ==
    HasConception =>
        \A i \in 1..Len(births) :
            LET r == births[i]
            IN  \A j \in BirthsAt(r.Country, DateOf(r) + 10) :
                    /\ r.future_births = births[j].Births
                    /\ r.future_days_in_month
                       = V(DaysInMonth(births[j].Year, births[j].Month))

\* a row whose partner lies in the next calendar year, while the other
\* country has other Births in the partner month
C7_Witness ==
    /\ pc = "conception"
    /\ \E r \in Rows(births) : \E j \in BirthsAt(r.Country, DateOf(r) + 10) :
          /\ r.Country = 1
          /\ births[j].Year = r.Year + 1
          /\ IsPositive(r.future_births)
          /\ \E k \in BirthsAt(2, DateOf(r) + 10) : births[k].Births # births[j].Births

(***************************************************************************)
(* C8: the rows without a row of the same country 10 months later are      *)
(* exactly the last 10 months of the country's series (all of it when it   *)
(* is shorter), and future_births, future_births_per_day and               *)
(* daily_conception_rate are null on each of them.                         *)
(***************************************************************************)
LastDate(c) == Max({DateOf(r) : r \in {x \in Rows(births) : x.Country = c}})

C8_LastTenMonthsNull ==
    HasConception =>
        \A r \in Rows(births) :
            /\ (BirthsAt(r.Country, DateOf(r) + 10) = {})
               <=> (DateOf(r) > LastDate(r.Country) - 10)
            /\ (BirthsAt(r.Country, DateOf(r) + 10) = {}) =>
                  /\ IsNull(r.future_births)
                  /\ IsNull(r.future_births_per_day)
                  /\ IsNull(r.daily_conception_rate)

\* a series longer than 10 months whose last row has Births and whose
\* eleventh row from the end has a conception rate
C8_Witness ==
    /\ pc = "conception"
    /\ \E r \in Rows(births) : \E i \in BirthsAt(1, DateOf(r) - 10) :
          /\ r.Country = 1
          /\ DateOf(r) = LastDate(1)
          /\ IsPositive(r.Births)
          /\ IsNull(r.daily_conception_rate)
          /\ IsPositive(births[i].daily_conception_rate)

(***************************************************************************)
(* C9: where future_births is non-null and the interpolated population of  *)
(* the row's own month is positive, daily_conception_rate times that       *)
(* population times the days of month M+10 is the Births of month M+10     *)
(* times 100000; the rate is null when month M+10 has no Births or month   *)
(* M has no population.                                                    *)
(***************************************************************************)
C9_ConceptionUsesCurrentPopulation ==
    HasConception =>
        \A i \in 1..Len(births) :
            LET r == births[i]
                later == BirthsAt(r.Country, DateOf(r) + 10)
                pops == PopulationAt(r.Country, DateOf(r))
            IN  /\ \A j \in later : \A p \in pops :
                      (~IsNull(r.future_births) /\ IsPositive(p.childbearing_population)) =>
                          Mul(Mul(r.daily_conception_rate, p.childbearing_population),
                              V(DaysInMonth(births[j].Year, births[j].Month)))
                          = Mul(births[j].Births, V(RATE_SCALE))
                /\ (later = {} \/ pops = {}
                    \/ (\E j \in later : IsNull(births[j].Births))
                    \/ (\E p \in pops : IsNull(p.childbearing_population)))
                   => IsNull(r.daily_conception_rate)

\* a row with a conception rate whose month and month of birth have
\* different positive populations
C9_Witness ==
    /\ pc = "conception"
    /\ \E r \in Rows(births) :
          \E p \in PopulationAt(r.Country, DateOf(r)) :
          \E q \in PopulationAt(r.Country, DateOf(r) + 10) :
              /\ IsPositive(r.daily_conception_rate)
              /\ IsPositive(p.childbearing_population)
              /\ IsPositive(q.childbearing_population)
              /\ p.childbearing_population # q.childbearing_population

(***************************************************************************)
(* C10: an interpolated population value of a month between two            *)
(* consecutive observations of the country lies between the values of      *)
(* the two observations; before the first observation it is the value of   *)
(* the first, after the last the value of the last.                        *)
(***************************************************************************)
Known(c) == {x \in Rows(raw_population) : x.Country = c}

Between(v, a, b) ==
    \/ LeqNum(a, v) /\ LeqNum(v, b)
    \/ LeqNum(b, v) /\ LeqNum(v, a)

C10_InterpolationBounds ==
    pc # "loaded" =>
        \A r \in Rows(population) :
            LET known == Known(r.Country)
                first == CHOOSE x \in known : \A y \in known : DateOf(x) <= DateOf(y)
                last == CHOOSE x \in known : \A y \in known : DateOf(x) >= DateOf(y)
            IN  /\ IsNum(r.childbearing_population)
                /\ DateOf(r) < DateOf(first) =>
                      r.childbearing_population = first.childbearing_population
                /\ DateOf(r) > DateOf(last) =>
                      r.childbearing_population = last.childbearing_population
                /\ \A a \in known : \A b \in known :
                      (/\ DateOf(a) <= DateOf(r) /\ DateOf(r) <= DateOf(b)
                       /\ ~\E x \in known : DateOf(a) < DateOf(x) /\ DateOf(x) < DateOf(b))
                      => Between(r.childbearing_population,
                                 a.childbearing_population, b.childbearing_population)

\* a month strictly inside a gap with a value strictly between the two
\* observations, in a series that also has months before its first and
\* after its last observation
C10_Witness ==
    /\ pc = "interpolated"
    /\ \E r \in Rows(population) : \E a \in Known(1) : \E b \in Known(1) :
          /\ r.Country = 1
          /\ DateOf(a) < DateOf(r) /\ DateOf(r) < DateOf(b)
          /\ r.childbearing_population # a.childbearing_population
          /\ r.childbearing_population # b.childbearing_population
          /\ Between(r.childbearing_population,
                     a.childbearing_population, b.childbearing_population)
    /\ \E r \in Rows(population) : \A a \in Known(1) :
          r.Country = 1 /\ DateOf(r) < DateOf(a)
    /\ \E r \in Rows(population) : \A a \in Known(1) :
          r.Country = 1 /\ DateOf(r) > DateOf(a)

(***************************************************************************)
(* Vocabulary of the population grid.                                      *)
(***************************************************************************)
HasPopulation == pc # "loaded"

\* the months of country c that have a raw population observation
PopObservedDates(c) ==
    {DateOf(r) : r \in {x \in Rows(raw_population) : x.Country = c}}

\* the number of interpolated population rows of country c for month d
PopRowCount(c, d) ==
    Cardinality({i \in 1..Len(population) :
        population[i].Country = c /\ DateOf(population[i]) = d})

\* every country has exactly one row for every month of lo(c)..hi(c) and
\* no other row
PopulationCovers(lo(_), hi(_)) ==
    /\ CountriesOf(population) = CountriesOf(raw_population)
    /\ \A c \in CountriesOf(raw_population) :
          /\ \A d \in lo(c)..hi(c) : PopRowCount(c, d) = 1
          /\ \A r \in Rows(population) :
                r.Country = c => DateOf(r) \in lo(c)..hi(c)

FirstObserved(c) == Min(PopObservedDates(c))
LastObserved(c) == Max(PopObservedDates(c))
JanuaryOfFirst(c) == MkDate(DateYear(FirstObserved(c)), 1)
DecemberOfLast(c) == MkDate(DateYear(LastObserved(c)), 12)

(***************************************************************************)
(* C11 as stated: the output of interpolate_population has exactly one row *)
(* per country and month from the month of the country's earliest to the   *)
(* month of its latest population observation, and no row outside.         *)
(***************************************************************************)
C11_PopulationObservedRange ==
    HasPopulation => PopulationCovers(FirstObserved, LastObserved)

(***************************************************************************)
(* C11 amended: the output of interpolate_population has exactly one row   *)
(* per country and month from January of the year of the country's         *)
(* earliest observation to December of the year of its latest observation, *)
(* and no other row; a country with one observation gets the 12 months of  *)
(* that year.                                                              *)
(***************************************************************************)
C11_PopulationWholeYears ==
    HasPopulation => PopulationCovers(JanuaryOfFirst, DecemberOfLast)

\* country 1 has a single observation, outside January and December, and
\* 12 rows; country 2 has observations in two years and 24 rows
C11_Witness ==
    /\ pc = "interpolated"
    /\ Cardinality(PopObservedDates(1)) = 1
    /\ DateMonth(FirstObserved(1)) \notin {1, 12}
    /\ Len(RowsOf(population, 1)) = 12
    /\ DateYear(FirstObserved(2)) < DateYear(LastObserved(2))
    /\ Len(RowsOf(population, 2)) = 24

(***************************************************************************)
(* Vocabulary of the trailing 12-month average.                            *)
(***************************************************************************)
\* the rows of the births table for the country of r and month d
SameCountryAt(r, d) ==
    {x \in Rows(births) : x.Country = r.Country /\ DateOf(x) = d}

\* the first month of the series of the country of r
FirstDateOf(r) == Min({DateOf(x) : x \in {y \in Rows(births) : y.Country = r.Country}})

\* the country of r has a non-null daily_fertility_rate in each of the 12
\* calendar months that end with the month of r
TwelveRates(r) ==
    \A d \in (DateOf(r) - WINDOW_SIZE + 1)..DateOf(r) :
        \E x \in SameCountryAt(r, d) : ~IsNull(x.daily_fertility_rate)

\* those 12 rates, oldest first
TrailingRates(r) ==
    Eager([k \in 1..WINDOW_SIZE |->
        (CHOOSE x \in SameCountryAt(r, DateOf(r) - WINDOW_SIZE + k) : TRUE)
            .daily_fertility_rate])

IndexWritten == pc \in {"json", "charts"} /\ filtered_countries # <<>>

\* names that no row of the births table carries
AbsentCountries ==
    {c \in 1..(Cardinality(CountriesOf(births)) + 1) : c \notin CountriesOf(births)}

\* month m of year y of country c has a row with a non-null
\* daily_fertility_rate
HasRate(c, y, m) ==
    \E r \in Rows(births) :
        /\ r.Country = c /\ r.Year = y /\ r.Month = m
        /\ ~IsNull(r.daily_fertility_rate)

\* the years of country c in which each of the months 1..12 has a rate
YearsWithTwelveRates(c) ==
    {y \in (FirstYear - 1)..(LastYear + 1) : \A m \in 1..12 : HasRate(c, y, m)}

CompleteYears(c) == Cardinality(YearsWithTwelveRates(c))

\* year y of country c has 12 months of Births
YearWithTwelveBirths(c, y) ==
    \A m \in 1..12 : \E r \in Rows(births) :
        r.Country = c /\ r.Year = y /\ r.Month = m /\ ~IsNull(r.Births)

(***************************************************************************)
(* C13: compute_complete_years of a country is the number of its years in  *)
(* which each of the months 1..12 has a non-null daily_fertility_rate, and *)
(* 0 for a country without rows; the counts reported for the excluded      *)
(* countries and written to the index are these numbers.                   *)
(***************************************************************************)
C13_CompleteYearsCount ==
    /\ HasFertility =>
          /\ \A c \in CountriesOf(births) :
                compute_complete_years(births, c) = CompleteYears(c)
          /\ \A c \in AbsentCountries : compute_complete_years(births, c) = 0
    /\ IndexWritten =>
          /\ \A i \in 1..Len(countries_json) :
                countries_json[i].completeYears = CompleteYears(countries_json[i].name)
          /\ \A i \in 1..Len(excluded_by_years) :
                excluded_by_years[i][2] = CompleteYears(excluded_by_years[i][1])

\* the index has a country with one complete year that has a second year
\* with 12 months of Births, not counted because a rate is missing
C13_Witness ==
    /\ IndexWritten
    /\ \E i \in 1..Len(countries_json) :
          /\ countries_json[i].completeYears = 1
          /\ \E y \in FirstYear..LastYear :
                /\ YearWithTwelveBirths(countries_json[i].name, y)
                /\ y \notin YearsWithTwelveRates(countries_json[i].name)

\* the Births values of country c
BirthsValues(c) ==
    {r.Births : r \in {x \in Rows(births) : x.Country = c /\ ~IsNull(x.Births)}}

\* the minimum of the Births of country c exists and is at least f
MinBirthsAtLeast(c, f) ==
    /\ BirthsValues(c) # {}
    /\ \A v \in BirthsValues(c) : LeqNum(V(f), v)

\* the countries that meet both thresholds of the command line
Passing ==
    {c \in CountriesOf(births) :
        /\ CompleteYears(c) >= args.min_years
        /\ MinBirthsAtLeast(c, args.min_monthly_births)}

Included == ToSet(filtered_countries[1])

\* the two filters applied in the other order: the births filter on the
\* whole table, the years filter on the countries that passed it
IncludedBirthsFilterFirst ==
    LET by_births ==
            filter_countries_by_min_monthly_births(births, args.min_monthly_births)
        births_filtered ==
            SelectSeq(births, LAMBDA r : r.Country \in ToSet(by_births.included))
    IN  filter_countries_by_min_years(births_filtered, args.min_years).included

YearThresholds == 0..NumYears

\* the result of the years filter on the current table with threshold k:
\* the included are the countries with at least k complete years, the
\* excluded are the others, each once and with its count
YearsFilterSplits(k) ==
    LET res == filter_countries_by_min_years(births, k)
        low == {c \in CountriesOf(births) : CompleteYears(c) < k}
    IN  /\ ToSet(res.included) = CountriesOf(births) \ low
        /\ Len(res.included) = Cardinality(CountriesOf(births) \ low)
        /\ ToSet(res.excluded) = {<<c, CompleteYears(c)>> : c \in low}
        /\ Len(res.excluded) = Cardinality(low)

(***************************************************************************)
(* C15: filter_countries_by_min_years(births, k) includes a country iff    *)
(* it has at least k complete years and lists every other country as       *)
(* excluded with its count; with k = 0 every country is included and       *)
(* nothing is excluded.  The exclusions main reports are those of the      *)
(* threshold of its command line.                                          *)
(***************************************************************************)
C15_MinYearsInclusiveBound ==
    /\ HasFertility =>
          /\ \A k \in YearThresholds : YearsFilterSplits(k)
          /\ filter_countries_by_min_years(births, 0).excluded = <<>>
    /\ IndexWritten =>
          /\ ToSet(excluded_by_years) =
                {<<c, CompleteYears(c)>> :
                    c \in {x \in CountriesOf(births) : CompleteYears(x) < args.min_years}}
          /\ args.min_years = 0 => excluded_by_years = <<>>

\* with a threshold of 2 years a country with exactly 2 complete years is
\* not reported as excluded; it is excluded with a threshold of 3
C15_Witness ==
    /\ IndexWritten
    /\ args.min_years = 2
    /\ CompleteYears(1) = 2
    /\ \A i \in 1..Len(excluded_by_years) : excluded_by_years[i][1] # 1
    /\ <<2, 0>> \in ToSet(excluded_by_years)
    /\ <<1, 2>> \in ToSet(filter_countries_by_min_years(births, 3).excluded)

\* the births floors the filter is applied with
BirthsFloors ==
    (0..(MaxBirths + 2))
    \cup {MIN_MONTHLY_BIRTHS - 1, MIN_MONTHLY_BIRTHS, MIN_MONTHLY_BIRTHS + 1}

\* the countries the years filter of the command line lets through
PassingYears == {c \in CountriesOf(births) : CompleteYears(c) >= args.min_years}

C16_WitnessAtFloor ==
    /\ IndexWritten
    /\ args.min_monthly_births = MIN_MONTHLY_BIRTHS
    /\ V(MIN_MONTHLY_BIRTHS) \in BirthsValues(1)
    /\ 1 \in Included

ZeroThresholds == args.min_years = 0 /\ args.min_monthly_births = 0

(***************************************************************************)
(* C17: with both thresholds 0 every country of the table is included in   *)
(* the index, nothing is reported as excluded, and when the workers are    *)
(* done every country has its JSON files.                                  *)
(***************************************************************************)
C17_ZeroThresholdsIncludeAll ==
    (IndexWritten /\ ZeroThresholds) =>
        /\ Included = CountriesOf(births)
        /\ excluded_by_years = <<>>
        /\ excluded_by_births = <<>>
        /\ (pc = "charts" /\ \A c \in DOMAIN worker : worker[c] = "done")
              => json_exported = CountriesOf(births)

(***************************************************************************)
(* C18: in every run of main, whatever the format flags, a country has     *)
(* JSON files or charts only if it meets both thresholds of the run, and   *)
(* no such output is written before the inclusion decision is made.        *)
(***************************************************************************)
C18_OutputsOnlyForIncluded ==
    /\ (json_exported \cup charts_exported) # {} => filtered_countries # <<>>
    /\ \A c \in json_exported : c \in Passing
    /\ \A c \in charts_exported : c \in Passing

\* the names on a list of (country, value) reports
Reported(list) == {list[i][1] : i \in 1..Len(list)}

\* no element occurs twice in the list
NoDuplicates(list) == Cardinality(ToSet(list)) = Len(list)

\* the least Births value of country c as the report prints it, 0 for a
\* country without any Births value
ReportedMinimum(c) ==
    IF BirthsValues(c) = {} THEN 0
    ELSE IntOf(CHOOSE v \in BirthsValues(c) : \A w \in BirthsValues(c) : LeqNum(v, w))

(***************************************************************************)
(* C19: after export_countries_index every country of the table is in      *)
(* exactly one of: the returned list, the list of the countries excluded   *)
(* for too few complete years (with its count), the list of the countries  *)
(* excluded for a month below the births floor (with its minimum).         *)
(***************************************************************************)
C19_EveryCountryAccountedOnce ==
    IndexWritten =>
        /\ Included \cup Reported(excluded_by_years) \cup Reported(excluded_by_births)
              = CountriesOf(births)
        /\ Included \cap Reported(excluded_by_years) = {}
        /\ Included \cap Reported(excluded_by_births) = {}
        /\ Reported(excluded_by_years) \cap Reported(excluded_by_births) = {}
        /\ NoDuplicates(filtered_countries[1])
        /\ NoDuplicates(excluded_by_years) /\ NoDuplicates(excluded_by_births)
        /\ Cardinality(Reported(excluded_by_years)) = Len(excluded_by_years)
        /\ Cardinality(Reported(excluded_by_births)) = Len(excluded_by_births)
        /\ \A i \in 1..Len(excluded_by_years) :
              excluded_by_years[i][2] = CompleteYears(excluded_by_years[i][1])
        /\ \A i \in 1..Len(excluded_by_births) :
              excluded_by_births[i][2] = ReportedMinimum(excluded_by_births[i][1])

\* one country fails both thresholds and is reported for its years only,
\* the other one has enough complete years and is reported for its births
C19_Witness ==
    /\ IndexWritten
    /\ Reported(excluded_by_years) = {2}
    /\ ~MinBirthsAtLeast(2, args.min_monthly_births)
    /\ Reported(excluded_by_births) = {1}
    /\ excluded_by_births[1][2] > 0

\* the raw births rows of country c for month d
RawBirthsAt(c, d) ==
    {x \in Rows(raw_births) : x.Country = c /\ DateOf(x) = d}

\* the last month before d in which country c has a raw observation
LastObservedBefore(c, d) == Max({o \in ObservedDates(c) : o < d})

(***************************************************************************)
(* C20: in the output of create_births_monthly_index a month without raw   *)
(* observation has null Births and the Source of the last earlier observed *)
(* month of the same country; an observed month keeps its own Births and   *)
(* Source.                                                                 *)
(***************************************************************************)
C20_SourceForwardFilled ==
    HasIndex =>
        \A r \in Rows(births) :
            IF DateOf(r) \in ObservedDates(r.Country)
            THEN \A x \in RawBirthsAt(r.Country, DateOf(r)) :
                    r.Births = x.Births /\ r.Source = x.Source
            ELSE /\ IsNull(r.Births)
                 /\ \E o \in ObservedDates(r.Country) : o < DateOf(r)
                 /\ \A x \in RawBirthsAt(r.Country,
                                         LastObservedBefore(r.Country, DateOf(r))) :
                       r.Source = x.Source

\* a month without observation lies between a month of one source and a
\* month of another source and has the source of the earlier one
C20_Witness ==
    /\ pc = "indexed"
    /\ \E r \in Rows(births) :
          /\ DateOf(r) \notin ObservedDates(r.Country)
          /\ IsNull(r.Births)
          /\ \E x \in RawBirthsAt(r.Country, DateOf(r) - 1) : x.Source = r.Source
          /\ \E x \in RawBirthsAt(r.Country, DateOf(r) + 1) : x.Source # r.Source

\* the Source values of the rows of country c that hold an original
\* observation
ObservedSources(c) ==
    {r.Source : r \in {x \in Rows(population) :
        x.Country = c /\ DateOf(x) \in PopObservedDates(c)}}

\* the rows of country c whose value was filled by interpolation or edge
\* hold
FilledRows(c) ==
    {x \in Rows(population) : x.Country = c /\ DateOf(x) \notin PopObservedDates(c)}

(***************************************************************************)
(* C21: after interpolate_population every month whose population was      *)
(* filled by interpolation or edge hold carries a Source that no month     *)
(* holding an original observation of the same country carries, so that    *)
(* filled and observed months can be told apart by their Source.           *)
(***************************************************************************)
C21_FilledSourceDistinct ==
    HasPopulation =>
        \A c \in CountriesOf(population) :
            \A r \in FilledRows(c) : r.Source \notin ObservedSources(c)

(***************************************************************************)
(* Vocabulary of the coverage statistics.                                  *)
(***************************************************************************)
HasStats == pc \in {"stats", "fertility", "seasonality"} \/ Processed

\* the rows of the births table in the group of country c and source s
GroupOf(c, s) ==
    {i \in 1..Len(births) : births[i].Country = c /\ births[i].Source = s}

\* the rows of the stats table for country c and source s
StatsAt(c, s) == {i \in 1..Len(stats) : stats[i].Country = c /\ stats[i].Source = s}

\* the value of a column in the stats row of (c, s); 0 without such a row
StatOf(c, s, col) ==
    IF StatsAt(c, s) = {} THEN 0 ELSE stats[CHOOSE i \in StatsAt(c, s) : TRUE][col]

\* the sum of a column over the sources of country c
SumOverSources(c, col) ==
    StatOf(c, NoSource, col) + StatOf(c, "HMD", col) + StatOf(c, "UN", col)

SourcesOfCountry(c) == {stats[i].Source : i \in {j \in 1..Len(stats) : stats[j].Country = c}}

(***************************************************************************)
(* C22: the output of compute_births_extent_stats has one row per          *)
(* (Country, Source) group of the monthly records; its periods_total is    *)
(* the group's row count, periods_present the number of its rows with      *)
(* non-null Births and periods_missing their difference, which is not      *)
(* negative; the country-level columns of every row are the minimum        *)
(* earliest_date, the maximum latest_date and the sums of periods_present, *)
(* periods_total and periods_missing over all sources of the country.      *)
(***************************************************************************)
C22_ExtentStats ==
    HasStats =>
        /\ \A c \in CountriesOf(births) : \A s \in {NoSource, "HMD", "UN"} :
              LET present == {i \in GroupOf(c, s) : ~IsNull(births[i].Births)}
              IN  IF GroupOf(c, s) = {} THEN StatsAt(c, s) = {}
                  ELSE /\ Cardinality(StatsAt(c, s)) = 1
                       /\ StatOf(c, s, "periods_total") = Cardinality(GroupOf(c, s))
                       /\ StatOf(c, s, "periods_present") = Cardinality(present)
                       /\ StatOf(c, s, "periods_missing")
                             = Cardinality(GroupOf(c, s)) - Cardinality(present)
                       /\ StatOf(c, s, "periods_missing") >= 0
        /\ \A i \in 1..Len(stats) :
              LET r == stats[i]
                  c == r.Country
              IN  /\ c \in CountriesOf(births)
                  /\ r.earliest_date_country
                        = Min({StatOf(c, s, "earliest_date") : s \in SourcesOfCountry(c)})
                  /\ r.latest_date_country
                        = Max({StatOf(c, s, "latest_date") : s \in SourcesOfCountry(c)})
                  /\ r.periods_present_country = SumOverSources(c, "periods_present")
                  /\ r.periods_total_country = SumOverSources(c, "periods_total")
                  /\ r.periods_missing_country = SumOverSources(c, "periods_missing")

\* a country has two sources; one of its groups misses a period and starts
\* after the country's first month
C22_Witness ==
    /\ pc = "stats"
    /\ \E i \in 1..Len(stats) :
          /\ Cardinality(SourcesOfCountry(stats[i].Country)) = 2
          /\ stats[i].periods_total_country > stats[i].periods_total
          /\ stats[i].earliest_date_country < stats[i].earliest_date
          /\ stats[i].periods_missing_country > 0
          /\ stats[i].periods_present > 0

(***************************************************************************)
(* Vocabulary of the independence of the countries.                        *)
(***************************************************************************)
\* the processing chain of process_data applied to raw tables
ChainPopulation(p) == interpolate_population(p)

ChainBirths(b, p) ==
    compute_conception_rates(
        compute_seasonality(
            compute_fertility_rates(create_births_monthly_index(b),
                                    interpolate_population(p))))

\* the records that the chain derives for country c when the raw tables
\* hold the rows of c and no row of any other country
AloneBirths(c) == ChainBirths(RowsOf(raw_births, c), RowsOf(raw_population, c))
AlonePopulation(c) == ChainPopulation(RowsOf(raw_population, c))

(***************************************************************************)
(* C23: the records that the processing chain derives for a country are    *)
(* the records it derives from the raw rows of that country alone: they    *)
(* are the same for all inputs that hold the same raw births and           *)
(* population rows for the country, whatever rows of other countries are   *)
(* added, removed or changed.                                              *)
(***************************************************************************)
C23_NoCrossCountryDependency ==
    pc = "conception" =>
        \A c \in CountriesOf(raw_births) \cup CountriesOf(raw_population) :
            /\ RowsOf(births, c) = AloneBirths(c)
            /\ RowsOf(population, c) = AlonePopulation(c)

\* two countries are processed together; both get a trailing average, a
\* month shifted by the gestation period and an interpolated population
C23_Witness ==
    /\ pc = "conception"
    /\ \A c \in {1, 2} :
          /\ \E r \in Rows(births) : r.Country = c /\ IsNum(r.dfr_t12m_ma)
          /\ \E r \in Rows(births) : r.Country = c /\ IsNum(r.daily_conception_rate)
          /\ \E r \in Rows(population) :
                /\ r.Country = c
                /\ DateOf(r) \notin PopObservedDates(c)
                /\ FirstObserved(c) < DateOf(r) /\ DateOf(r) < LastObserved(c)


(***************************************************************************)
(* C24: when every worker of export_all_countries has returned, the files  *)
(* are those of exporting the countries of the list one at a time in the   *)
(* order of the list, and no two workers write the same file.              *)
(***************************************************************************)
\* _export_country_json run to its end on its own
ExportOneCountry(fs, c) ==
    LET a == WriteFiles(fs, {CountryJson(FERTILITY_OUTPUT_DIR, c),
                             CountryJson(FRONTEND_ASSETS_FERTILITY_DIR, c)},
                        <<"fertility", c>>)
        b == WriteFiles(a, {CountryJson(SEASONALITY_OUTPUT_DIR, c),
                            CountryJson(FRONTEND_ASSETS_SEASONALITY_DIR, c)},
                        <<"seasonality", c>>)
    IN  IF HasConceptionData(births, c)
        THEN WriteFiles(b, {CountryJson(CONCEPTION_OUTPUT_DIR, c),
                            CountryJson(FRONTEND_ASSETS_CONCEPTION_DIR, c)},
                        <<"conception", c>>)
        ELSE b

RECURSIVE ExportOneAtATime(_, _)
ExportOneAtATime(fs, countries) ==
    IF countries = <<>> THEN fs
    ELSE ExportOneAtATime(ExportOneCountry(fs, Head(countries)), Tail(countries))

AllWorkersDone ==
    /\ pc \in {"json", "charts"}
    /\ DOMAIN worker # {}
    /\ \A c \in DOMAIN worker : worker[c] = "done"

SameSlug(c1, c2) ==
    get_country_slug(country_names[c1]) = get_country_slug(country_names[c2])

C24_ParallelEqualsSequential ==
    /\ AllWorkersDone => files = ExportOneAtATime(files, filtered_countries[1])
    /\ \A c1, c2 \in DOMAIN worker : c1 # c2 => ~SameSlug(c1, c2)

\* the same for the runs in which the slugs of the countries differ
C24_DistinctSlugs ==
    (\A c1, c2 \in DOMAIN worker : c1 # c2 => ~SameSlug(c1, c2))
        => (AllWorkersDone => files = ExportOneAtATime(files, filtered_countries[1]))


(***************************************************************************)
(* C25: the result of trim_leading_trailing_nulls is in (year, month)      *)
(* order, begins and ends with an entry that has a value, holds every      *)
(* entry of data that has a value, holds every null entry of data that     *)
(* lies between two entries with a value and no null entry that lies       *)
(* before the first or after the last of them; it is empty when data is    *)
(* empty or has no entry with a value.                                     *)
(***************************************************************************)
Trimmed == result[1]

\* how often the entry occurs in the list
Count(d, e) == Cardinality({i \in 1..Len(d) : d[i] = e})

ValidEntries == {data[i] : i \in {j \in 1..Len(data) : IsValid(data[j])}}

C25_TrimLeadingTrailingNulls ==
    result # <<>> =>
        /\ \A i, j \in 1..Len(Trimmed) : i < j => ~KeyLess(Trimmed[j], Trimmed[i])
        /\ ValidEntries = {} => Trimmed = <<>>
        /\ ValidEntries # {} =>
              /\ IsValid(Trimmed[1])
              /\ IsValid(Trimmed[Len(Trimmed)])
        /\ \A e \in TrimEntries :
              /\ Count(Trimmed, e) <= Count(data, e)
              /\ IsValid(e) => Count(Trimmed, e) = Count(data, e)
              /\ (/\ ~IsValid(e)
                  /\ \E a \in ValidEntries : KeyLess(a, e)
                  /\ \E b \in ValidEntries : KeyLess(e, b))
                    => Count(Trimmed, e) = Count(data, e)
              /\ (/\ ~IsValid(e)
                  /\ \/ \A a \in ValidEntries : KeyLess(e, a)
                     \/ \A a \in ValidEntries : KeyLess(a, e))
                    => Count(Trimmed, e) = 0

\* unsorted data with null entries at both ends and in the middle
C25_Witness ==
    /\ result # <<>>
    /\ Len(data) = 4
    /\ Len(Trimmed) = 3
    /\ ~IsValid(Trimmed[2])
    /\ KeyLess(data[4], data[1])


(***************************************************************************)
(* C28: in the result of expand_population_to_monthly, within a year that  *)
(* has a value and is followed by a year with a value, each month differs  *)
(* from the month before by a twelfth of the difference of the two annual  *)
(* values.                                                                 *)
(***************************************************************************)
Monthly == state_monthly[1]

AnnualOf(st, y) ==
    LET i == CHOOSE j \in 1..Len(state_population) :
                 state_population[j].Country = st /\ state_population[j].Year = y
    IN  state_population[i].childbearing_population

MonthlyOf(st, y, m) ==
    LET i == CHOOSE j \in 1..Len(Monthly) :
                 Monthly[j].Country = st /\ Monthly[j].Year = y /\ Monthly[j].Month = m
    IN  Monthly[i].childbearing_population

C28_LinearBetweenYears ==
    (state_monthly # <<>> /\ state_population # <<>>) =>
        \A st \in States : \A y \in StateYears \ {FirstYear + NumStateYears - 1} :
            (~IsNull(AnnualOf(st, y)) /\ ~IsNull(AnnualOf(st, y + 1))) =>
                \A m \in 1..11 :
                    Sub(MonthlyOf(st, y, m + 1), MonthlyOf(st, y, m))
                        = Div(Sub(AnnualOf(st, y + 1), AnnualOf(st, y)), V(12))


(***************************************************************************)
(* C26: no output file is removed or written before every table that the   *)
(* run exports has passed schema validation, the table of the states       *)
(* included, and a run that aborts leaves the outputs of the earlier run   *)
(* as they were.                                                           *)
(***************************************************************************)
ExportedTables ==
    (IF args.states_only THEN {} ELSE {"births", "population", "stats"})
    \cup (IF args.states THEN {"states"} ELSE {})

OutputsTouched == files # PreviousOutputs

C26_ValidatedBeforeOutputs ==
    /\ OutputsTouched => ExportedTables \subseteq validated
    /\ pc = "aborted" => ~OutputsTouched

\* the part of it on the tables of the countries
C26_CountryTablesValidated ==
    OutputsTouched => {"births", "population", "stats"} \subseteq validated


(***************************************************************************)
(* C27: when export_all_countries has returned, the fertility and the      *)
(* seasonality file of every country of the returned list and of every     *)
(* country of countries.json were written by the task of that call, and a  *)
(* country whose task raised is in neither of the two.                     *)
(***************************************************************************)
AllCountriesReturned ==
    /\ pc \in {"charts", "charts_copied", "done", "aborted"}
    /\ filtered_countries # <<>>

ReturnedCountries == ToSet(filtered_countries[1])
IndexedCountries == {countries_json[i].name : i \in 1..Len(countries_json)}

C27_ReturnedWereExported ==
    AllCountriesReturned =>
        \A c \in ReturnedCountries \cup IndexedCountries :
            /\ worker[c] # "failed"
            /\ c \in json_exported


(***************************************************************************)
(* C29: an output file of the earlier run that belongs to a format or a    *)
(* data set that this run does not export is still there with its content: *)
(* the files of the states in a run without --states, the CSV files in a   *)
(* run without CSV export, the JSON files of the countries in a run        *)
(* without JSON export, and the charts in a run without charts.            *)
(***************************************************************************)
StateOutputDirs ==
    {STATES_FERTILITY_OUTPUT_DIR, STATES_SEASONALITY_OUTPUT_DIR,
     STATES_CONCEPTION_OUTPUT_DIR, STATES_CHARTS_OUTPUT_DIR,
     FRONTEND_ASSETS_STATES_FERTILITY_DIR, FRONTEND_CONTENT_STATES_CHARTS_DIR}

CountryJsonDirs ==
    {FERTILITY_OUTPUT_DIR, SEASONALITY_OUTPUT_DIR, CONCEPTION_OUTPUT_DIR,
     FRONTEND_ASSETS_FERTILITY_DIR, FRONTEND_ASSETS_SEASONALITY_DIR,
     FRONTEND_ASSETS_CONCEPTION_DIR}

IsStateOutput(p) == \E d \in StateOutputDirs : Inside(p, d)

IsCountryJson(p) ==
    /\ ~IsStateOutput(p)
    /\ \/ \E d \in CountryJsonDirs : Inside(p, d)
       \/ p \in {Child(JSON_OUTPUT_DIR, "countries.json"),
                 Child(FRONTEND_ASSETS_DATA_DIR, "countries.json")}

IsCountryChart(p) ==
    /\ ~IsStateOutput(p)
    /\ \E d \in {CHARTS_OUTPUT_DIR, FRONTEND_CONTENT_CHARTS_DIR} : Inside(p, d)

\* the run exports the format or data set that the file belongs to
Regenerates(p) ==
    \/ IsStateOutput(p) /\ args.states
    \/ p \in CsvFiles /\ WantsCsv /\ ~args.states_only
    \/ IsCountryJson(p) /\ WantsJson /\ ~args.states_only
    \/ IsCountryChart(p) /\ WantsCharts /\ ~args.states_only

Untouched(p) == p \in DOMAIN files /\ files[p] = PreviousOutputs[p]

C29_OnlyRegeneratedDeleted ==
    \A p \in DOMAIN PreviousOutputs : ~Regenerates(p) => Untouched(p)

\* the same without the files of the states
C29_CountryOutputsKept ==
    \A p \in DOMAIN PreviousOutputs :
        (~IsStateOutput(p) /\ ~Regenerates(p)) => Untouched(p)


(***************************************************************************)
(* C30: each of compute_fertility_rates, compute_seasonality and           *)
(* compute_conception_rates returns the rows of the births table it was    *)
(* given, as many and in the same order, every column they had with the    *)
(* value it had, and adds columns only; the final table still has one row  *)
(* for every month of the range of each country.                           *)
(***************************************************************************)
RowsKept(old, new) ==
    /\ Len(new) = Len(old)
    /\ \A i \in 1..Len(old) :
          \A col \in DOMAIN old[i] :
              col \in DOMAIN new[i] /\ new[i][col] = old[i][col]

\* a step of one of the three functions
MetricsStep == pc \in {"stats", "fertility", "seasonality"} /\ births' # births

\* one row for every month from the first to the last observation
FinalTableGapless ==
    \A c \in CountriesOf(raw_births) :
        /\ \A d \in Min(ObservedDates(c))..Max(ObservedDates(c)) :
              Cardinality(BirthsAt(c, d)) = 1
        /\ Len(RowsOf(births, c)) = Max(ObservedDates(c)) - Min(ObservedDates(c)) + 1

C30_RowsPreserved ==
    /\ [][MetricsStep => RowsKept(births, births')]_vars
    /\ [](pc = "conception" => FinalTableGapless)

\* a final table with a month that has no population row and with months
\* that received a value in the columns of each of the three functions
C30_Witness ==
    /\ pc = "conception"
    /\ \E i \in 1..Len(births) :
          births[i].Date_population = NoDate /\ ~IsNull(births[i].Births)
    /\ \E i \in 1..Len(births) : IsNum(births[i].daily_fertility_rate)
    /\ \E i \in 1..Len(births) : IsNum(births[i].seasonality_ratio_t12m)
    /\ \E i \in 1..Len(births) : IsNum(births[i].daily_conception_rate)

====
